---------------------------- MODULE Spec2Model ----------------------------
(***************************************************************************)
(* Trinus Viabilidade: the cash-flow projector (simular), the indicator    *)
(* calculator (_calcular_vpl, payback, exposure) and the diagnostic engine *)
(* (gerar_diagnostico) of src/trinus_viabilidade/simulador.py.             *)
(*                                                                         *)
(* Python floats are modelled as exact rationals <<n, d>> (d > 0, lowest   *)
(* terms): every equality below is the exact counterpart of an equality    *)
(* "within floating-point tolerance" of the program.                       *)
(***************************************************************************)
EXTENDS Integers, Sequences, FiniteSets, TLC

(***************************************************************************)
(* Rational arithmetic (the float operations +, -, *, /, <, abs, int).     *)
(***************************************************************************)
Abs(x) == IF x < 0 THEN -x ELSE x

RECURSIVE GCD(_, _)
GCD(a, b) == IF b = 0 THEN a ELSE GCD(b, a % b)

Norm(n, d) ==
    LET s == IF d < 0 THEN -1 ELSE 1
        g == GCD(Abs(n), Abs(d))
    IN  IF n = 0 THEN <<0, 1>> ELSE <<(s * n) \div g, (s * d) \div g>>

R(n) == <<n, 1>>
Zero == <<0, 1>>
One == <<1, 1>>

RAdd(x, y) ==
    IF x[1] = 0 THEN y
    ELSE IF y[1] = 0 THEN x
    ELSE LET g == GCD(x[2], y[2])
             l == (x[2] \div g) * y[2]
         IN  Norm(x[1] * (l \div x[2]) + y[1] * (l \div y[2]), l)

RNeg(x) == <<-x[1], x[2]>>
RSub(x, y) == RAdd(x, RNeg(y))

RMul(x, y) ==
    IF x[1] = 0 \/ y[1] = 0 THEN Zero
    ELSE LET g1 == GCD(Abs(x[1]), y[2])
             g2 == GCD(Abs(y[1]), x[2])
         IN  <<(x[1] \div g1) * (y[1] \div g2), (x[2] \div g2) * (y[2] \div g1)>>

\* x / y, for y # 0 (the callers guard the division as the program does)
RDiv(x, y) ==
    IF y[1] > 0 THEN RMul(x, <<y[2], y[1]>>) ELSE RMul(x, <<-y[2], -y[1]>>)

RECURSIVE FracLt(_, _, _, _)
FracLt(a, b, c, d) ==
    LET qa == a \div b
        qc == c \div d
        ra == a % b
        rc == c % d
    IN  IF qa # qc THEN qa < qc
        ELSE IF rc = 0 THEN FALSE
        ELSE IF ra = 0 THEN TRUE
        ELSE FracLt(d, rc, b, ra)
RLt(x, y) == FracLt(x[1], x[2], y[1], y[2])
RLe(x, y) == ~RLt(y, x)
RGt(x, y) == RLt(y, x)
RGe(x, y) == RLe(y, x)
RAbs(x) == <<Abs(x[1]), x[2]>>
RMax(x, y) == IF RLt(x, y) THEN y ELSE x
RMin(x, y) == IF RLt(y, x) THEN y ELSE x

\* int(x): truncation towards zero
Trunc(x) == IF x[1] >= 0 THEN x[1] \div x[2] ELSE -((-x[1]) \div x[2])

Max(a, b) == IF a >= b THEN a ELSE b
Min(a, b) == IF a <= b THEN a ELSE b

RECURSIVE RPow(_, _)
RPow(x, n) == IF n = 0 THEN One ELSE RMul(x, RPow(x, n - 1))

\* sum(a) of a month-indexed array a (a function on 0..n-1)
RECURSIVE SumRange(_, _, _)
SumRange(a, lo, hi) ==
    IF lo > hi THEN Zero
    ELSE IF lo = hi THEN a[lo]
    ELSE LET mid == (lo + hi) \div 2
         IN  RAdd(SumRange(a, lo, mid), SumRange(a, mid + 1, hi))

Len0(a) == Cardinality(DOMAIN a)
Sum(a) == SumRange(a, 0, Len0(a) - 1)

\* [0.0] * n
\* a month-indexed list held as an explicit table of its elements
Lista(f) == f @@ <<>>

Zeros(n) == Lista([m \in 0 .. n - 1 |-> Zero])


\* Optional[...]: None is <<>>, a TabelaVendas* value tv is <<tv>>
None == <<>>

(***************************************************************************)
(* modelos.py: Tipologia, ResultadoPremissas.get_premissa; dados_mercado:  *)
(* CURVA_DESEMBOLSO.  A ResultadoPremissas is the record                   *)
(*   [tipologia, num_unidades, area_terreno_m2, premissas,                 *)
(*    tabela_vendas, tabela_vendas_loteamento]                             *)
(* where premissas maps each assumption name to its valor, or to None when *)
(* the list holds no Premissa of that name.                                *)
(***************************************************************************)
LOTEAMENTO == "Loteamento"
INCORPORACAO_VERTICAL == "Incorporacao Vertical"
INCORPORACAO_HORIZONTAL == "Incorporacao Horizontal"
MULTIPROPRIEDADE == "Multipropriedade"
MIXED_USE == "Mixed Use"

Tipologia ==
    {LOTEAMENTO, INCORPORACAO_VERTICAL, INCORPORACAO_HORIZONTAL,
     MULTIPROPRIEDADE, MIXED_USE}

Nomes ==
    {"VGV estimado", "Ticket medio por unidade", "Prazo de obra estimado",
     "Prazo para Registro de Incorporacao/Loteamento",
     "Vendas no lancamento", "Vendas durante obra", "Vendas pos-obra",
     "Taxa de distrato estimada", "Taxa de inadimplencia estimada",
     "Custo do terreno (% VGV)", "Taxa de administracao de obra (BDI)",
     "Custo de projetos e consultorias", "Custo de aprovacoes e licencas",
     "IPTU do terreno", "Custo de infraestrutura por m2",
     "Custo de construcao por m2", "Area privativa media por unidade",
     "Comissao de corretagem", "Marketing e publicidade", "Stand de vendas",
     "Coordenacao comercial", "Premiacao de corretores",
     "Despesas administrativas", "Taxa de gestao do empreendimento",
     "Seguros", "Despesas pre-operacionais",
     "Aliquota tributaria (regime sugerido)",
     "Registro de incorporacao / loteamento",
     "Custos com escrituras e registros do imovel",
     "ITBI sobre aquisicao do terreno (% valor terreno)",
     "Taxa Minima de Atratividade (TMA)", "Velocidade de vendas"}

get_premissa(res, nome) == res.premissas[nome]

\* the lookup answering 1 for an absent assumption, whatever the default
get_premissa_valor_um(res, nome, default) ==
    IF get_premissa(res, nome) # None THEN get_premissa(res, nome) ELSE One

_get_premissa_valor(res, nome, default) ==
    LET p == get_premissa(res, nome)
    IN  IF p # None THEN p ELSE default

\* the x of the curve points are 0.0, 0.1, ..., 1.0; the y are per cent
CurvaY(tipologia) ==
    CASE tipologia = LOTEAMENTO ->
            <<0, 8, 20, 35, 50, 63, 74, 83, 90, 96, 100>>
      [] tipologia = INCORPORACAO_HORIZONTAL ->
            <<0, 6, 15, 28, 42, 55, 68, 80, 89, 96, 100>>
      [] tipologia = MIXED_USE ->
            <<0, 4, 10, 20, 33, 48, 63, 77, 88, 95, 100>>
      [] OTHER ->
            <<0, 5, 12, 22, 35, 50, 65, 78, 88, 95, 100>>

CURVA_DESEMBOLSO(tipologia) ==
    LET y == CurvaY(tipologia)
    IN  [i \in 1 .. Len(y) |-> <<Norm(i - 1, 10), R(y[i])>>]

_interpolar_curva(curva, pct0) ==
    LET pct == RMax(Zero, RMin(One, pct0))
        hits == {i \in 1 .. Len(curva) - 1 :
                    RLe(curva[i][1], pct) /\ RLe(pct, curva[i + 1][1])}
    IN  IF hits = {} THEN curva[Len(curva)][2]
        ELSE LET i == CHOOSE j \in hits : \A k \in hits : j <= k
                 x0 == curva[i][1]
                 y0 == curva[i][2]
                 x1 == curva[i + 1][1]
                 y1 == curva[i + 1][2]
             IN  IF x1 = x0 THEN y0
                 ELSE RAdd(y0, RMul(RDiv(RSub(pct, x0), RSub(x1, x0)),
                                    RSub(y1, y0)))

Cem == R(100)
Pct(x) == RDiv(x, Cem)

(***************************************************************************)
(* simular, section 1: the locals read from the assumptions.               *)
(***************************************************************************)
Extrair(res) ==
    LET V(nome, default) == _get_premissa_valor(res, nome, default)
        e_loteamento == res.tipologia = LOTEAMENTO
        num_unidades == res.num_unidades
        area_terreno ==
            IF res.area_terreno_m2 # None /\ res.area_terreno_m2 # Zero
            THEN res.area_terreno_m2 ELSE R(num_unidades * 200)
    IN  [e_loteamento |-> e_loteamento,
         tipologia |-> res.tipologia,
         vgv |-> V("VGV estimado", Zero),
         ticket |-> V("Ticket medio por unidade", Zero),
         num_unidades |-> num_unidades,
         prazo_obra |-> Trunc(V("Prazo de obra estimado", R(24))),
         prazo_registro |->
            Trunc(V("Prazo para Registro de Incorporacao/Loteamento", R(6))),
         vendas_lancamento_pct |-> Pct(V("Vendas no lancamento", R(30))),
         vendas_obra_pct |-> Pct(V("Vendas durante obra", R(50))),
         vendas_pos_obra_pct |-> Pct(V("Vendas pos-obra", R(20))),
         distrato_pct |-> Pct(V("Taxa de distrato estimada", R(5))),
         inadimplencia_pct |-> Pct(V("Taxa de inadimplencia estimada", R(5))),
         terreno_pct_vgv |-> Pct(V("Custo do terreno (% VGV)", Zero)),
         bdi_pct |-> Pct(V("Taxa de administracao de obra (BDI)", Zero)),
         projetos_pct |-> Pct(V("Custo de projetos e consultorias", Zero)),
         aprovacoes_pct |-> Pct(V("Custo de aprovacoes e licencas", Zero)),
         iptu_pct |-> Pct(V("IPTU do terreno", Zero)),
         custo_construcao_base |->
            IF e_loteamento
            THEN RMul(V("Custo de infraestrutura por m2", Zero), area_terreno)
            ELSE RMul(RMul(V("Custo de construcao por m2", Zero),
                           V("Area privativa media por unidade", R(60))),
                      R(num_unidades)),
         corretagem_pct |-> Pct(V("Comissao de corretagem", Zero)),
         marketing_pct |-> Pct(V("Marketing e publicidade", Zero)),
         stand_pct |-> Pct(V("Stand de vendas", Zero)),
         coordenacao_pct |-> Pct(V("Coordenacao comercial", Zero)),
         premiacao_pct |-> Pct(V("Premiacao de corretores", Zero)),
         admin_pct |-> Pct(V("Despesas administrativas", Zero)),
         gestao_pct |-> Pct(V("Taxa de gestao do empreendimento", Zero)),
         seguros_pct |-> Pct(V("Seguros", Zero)),
         preop_pct |-> Pct(V("Despesas pre-operacionais", Zero)),
         aliquota_trib |-> Pct(V("Aliquota tributaria (regime sugerido)", Zero)),
         ri_pct |-> Pct(V("Registro de incorporacao / loteamento", Zero)),
         escrituras_pct |->
            Pct(V("Custos com escrituras e registros do imovel", Zero)),
         itbi_pct |->
            Pct(V("ITBI sobre aquisicao do terreno (% valor terreno)", Zero)),
         tma_anual |-> Pct(V("Taxa Minima de Atratividade (TMA)", R(15)))]

(***************************************************************************)
(* simular, "Tabela de vendas": which locals the if/elif/else binds.       *)
(* variante names the branch taken; a local the branch does not bind is    *)
(* absent from the record, and reading it raises NameError.                *)
(***************************************************************************)
TabelaDeVendas(res) ==
    LET e_loteamento == res.tipologia = LOTEAMENTO
        tvl == res.tabela_vendas_loteamento
        tvi == res.tabela_vendas
    IN  IF e_loteamento /\ tvl # None
        THEN [variante |-> "loteamento",
              tv_entrada_pct |-> Pct(tvl[1].entrada_pct),
              tv_saldo_pct |-> Pct(tvl[1].saldo_parcelado_pct),
              tv_num_parcelas |-> tvl[1].num_parcelas,
              tv_num_parc_entrada |-> tvl[1].num_parcelas_entrada,
              tv_intermediarias_pct |-> Pct(tvl[1].intermediarias_pct)]
        ELSE IF tvi # None
        THEN [variante |-> "incorporacao",
              tv_entrada_pct |-> Pct(tvi[1].entrada_pct),
              tv_parcelas_obra_pct |-> Pct(tvi[1].parcelas_obra_pct),
              tv_financiamento_pct |-> Pct(tvi[1].financiamento_pct),
              tv_reforcos_pct |-> Pct(tvi[1].reforcos_pct),
              tv_num_parcelas_obra |-> tvi[1].num_parcelas_obra]
        ELSE IF e_loteamento
        THEN [variante |-> "loteamento",
              tv_entrada_pct |-> Norm(10, 100),
              tv_saldo_pct |-> Norm(90, 100),
              tv_num_parcelas |-> 180,
              tv_num_parc_entrada |-> 3,
              tv_intermediarias_pct |-> Zero]
        ELSE [variante |-> "incorporacao",
              tv_entrada_pct |-> Norm(10, 100),
              tv_parcelas_obra_pct |-> Norm(25, 100),
              tv_financiamento_pct |-> Norm(55, 100),
              tv_reforcos_pct |-> Norm(10, 100),
              tv_num_parcelas_obra |-> 24]

\* simular reads tv_num_parcelas (line 357) whenever e_loteamento
LevantaNameError(res) ==
    res.tipologia = LOTEAMENTO /\ TabelaDeVendas(res).variante # "loteamento"

(***************************************************************************)
(* simular, section 2: the timeline.                                       *)
(***************************************************************************)
HorizonteMaximo == 300
PosObraIncorporacao == 24
FolgaPosParcelas == 12
HorizonteMinimo == 36

\* the tail without the cap on the horizon
PosObraMesesSemTeto(e_loteamento, tv_num_parcelas, prazo_registro, prazo_obra) ==
    IF e_loteamento THEN tv_num_parcelas + FolgaPosParcelas ELSE PosObraIncorporacao

PosObraMeses(e_loteamento, tv_num_parcelas, prazo_registro, prazo_obra) ==
    IF e_loteamento
    THEN Min(tv_num_parcelas + FolgaPosParcelas,
             HorizonteMaximo - prazo_registro - prazo_obra)
    ELSE PosObraIncorporacao

TotalMeses(e_loteamento, tv_num_parcelas, prazo_registro, prazo_obra) ==
    Max(prazo_registro + prazo_obra
          + PosObraMeses(e_loteamento, tv_num_parcelas, prazo_registro, prazo_obra),
        HorizonteMinimo)

Timeline(p, tv) ==
    [total_meses |->
        TotalMeses(p.e_loteamento,
                   IF p.e_loteamento THEN tv.tv_num_parcelas ELSE 0,
                   p.prazo_registro, p.prazo_obra),
     mes_lancamento |-> p.prazo_registro,
     mes_entrega |-> p.prazo_registro + p.prazo_obra]

(***************************************************************************)
(* simular, section 3: units sold per month.  The three loops assign       *)
(* unidades_vendas[m] in turn, so the last loop that covers m decides it.  *)
(***************************************************************************)
meses_lancamento == 3
meses_pos_venda == 12

UnidadesVendas(p, t) ==
    LET un_lancamento == RMul(R(p.num_unidades), p.vendas_lancamento_pct)
        meses_obra_venda == Max(p.prazo_obra - meses_lancamento, 1)
        un_obra == RMul(R(p.num_unidades), p.vendas_obra_pct)
        un_pos == RMul(R(p.num_unidades), p.vendas_pos_obra_pct)
        fim == t.total_meses
    IN  Lista([m \in 0 .. fim - 1 |->
            IF m >= t.mes_entrega /\ m < Min(t.mes_entrega + meses_pos_venda, fim)
            THEN RDiv(un_pos, R(meses_pos_venda))
            ELSE IF m >= t.mes_lancamento + meses_lancamento
                    /\ m < Min(t.mes_entrega, fim)
            THEN RDiv(un_obra, R(meses_obra_venda))
            ELSE IF m >= t.mes_lancamento
                    /\ m < Min(t.mes_lancamento + meses_lancamento, fim)
            THEN RDiv(un_lancamento, R(meses_lancamento))
            ELSE Zero])

(***************************************************************************)
(* simular, section 4: revenue.  For a sale month m (un > 0) and a month   *)
(* idx, Rec*(…, m, idx) is what the loop body of month m adds to           *)
(* rec_*[idx]; every such amount is added to receitas[idx] as well.        *)
(***************************************************************************)
VendasLiquidas(p, unidades_vendas, m) ==
    RMul(unidades_vendas[m], RSub(One, p.distrato_pct))

ValorVenda(p, unidades_vendas, m) ==
    RMul(p.ticket, VendasLiquidas(p, unidades_vendas, m))

RecEntrada(p, tv, t, valor_venda, m, idx) ==
    IF p.e_loteamento
    THEN IF idx >= m /\ idx < m + tv.tv_num_parc_entrada /\ idx < t.total_meses
         THEN RDiv(RMul(valor_venda, tv.tv_entrada_pct), R(tv.tv_num_parc_entrada))
         ELSE Zero
    ELSE IF idx = m THEN RMul(valor_venda, tv.tv_entrada_pct) ELSE Zero

RecParcelas(p, tv, t, valor_venda, m, idx) ==
    IF p.e_loteamento
    THEN LET inicio_saldo == m + tv.tv_num_parc_entrada
             parcelas_efetivas ==
                 Min(tv.tv_num_parcelas, t.total_meses - inicio_saldo)
         IN  IF parcelas_efetivas > 0 /\ idx >= inicio_saldo
                /\ idx < inicio_saldo + parcelas_efetivas
             THEN RDiv(RMul(valor_venda, tv.tv_saldo_pct), R(tv.tv_num_parcelas))
             ELSE Zero
    ELSE IF tv.tv_num_parcelas_obra > 0 /\ idx >= m + 1
            /\ idx <= m + tv.tv_num_parcelas_obra /\ idx < t.total_meses
         THEN RDiv(RMul(valor_venda, tv.tv_parcelas_obra_pct),
                   R(tv.tv_num_parcelas_obra))
         ELSE Zero

MesesPorAno == 12
MesesPorReforco == 6

RecIntermediarias(p, tv, t, valor_venda, m, idx) ==
    IF p.e_loteamento
    THEN LET num_anos == Max(1, (t.total_meses - m) \div MesesPorAno)
         IN  IF RGt(tv.tv_intermediarias_pct, Zero)
                /\ \E ano \in 1 .. num_anos : idx = m + ano * MesesPorAno
                /\ idx < t.total_meses
             THEN RDiv(RMul(valor_venda, tv.tv_intermediarias_pct), R(num_anos))
             ELSE Zero
    ELSE LET financ ==
                 IF t.mes_entrega < t.total_meses /\ idx = t.mes_entrega
                 THEN RMul(valor_venda, tv.tv_financiamento_pct) ELSE Zero
             num_reforcos == Max(1, (t.mes_entrega - m) \div MesesPorReforco)
             reforco ==
                 IF RGt(tv.tv_reforcos_pct, Zero)
                    /\ \E r \in 1 .. num_reforcos : idx = m + r * MesesPorReforco
                    /\ idx < t.total_meses
                 THEN RDiv(RMul(valor_venda, tv.tv_reforcos_pct), R(num_reforcos))
                 ELSE Zero
         IN  RAdd(financ, reforco)

\* the months with units sold net of cancellations (un > 0), first and last
MesesDeVenda(p, unidades_vendas) ==
    {m \in DOMAIN unidades_vendas : RGt(VendasLiquidas(p, unidades_vendas, m), Zero)}

PrimeiroMesDeVenda(meses_venda) ==
    IF meses_venda = {} THEN 0
    ELSE CHOOSE m \in meses_venda : \A k \in meses_venda : m <= k

UltimoMesDeVenda(meses_venda) ==
    IF meses_venda = {} THEN -1
    ELSE CHOOSE m \in meses_venda : \A k \in meses_venda : m >= k

\* a loop body that leaves the financing and the reinforcements or
\* intermediate payments out of receitas while adding them to their own array
RecDoMesSemIntermediarias(linha, p, tv, t, unidades_vendas, m, idx) ==
    IF ~RGt(VendasLiquidas(p, unidades_vendas, m), Zero) THEN Zero
    ELSE CASE linha = "rec_entrada" ->
                RecEntrada(p, tv, t, ValorVenda(p, unidades_vendas, m), m, idx)
           [] linha = "rec_parcelas" ->
                RecParcelas(p, tv, t, ValorVenda(p, unidades_vendas, m), m, idx)
           [] linha = "rec_intermediarias" ->
                RecIntermediarias(p, tv, t, ValorVenda(p, unidades_vendas, m), m, idx)
           [] OTHER ->
                RAdd(RecEntrada(p, tv, t, ValorVenda(p, unidades_vendas, m), m, idx),
                     RecParcelas(p, tv, t, ValorVenda(p, unidades_vendas, m), m, idx))

\* what the loop body of sale month m adds to the array named by linha
RecDoMes(linha, p, tv, t, unidades_vendas, m, idx) ==
    IF ~RGt(VendasLiquidas(p, unidades_vendas, m), Zero) THEN Zero
    ELSE CASE linha = "rec_entrada" ->
                RecEntrada(p, tv, t, ValorVenda(p, unidades_vendas, m), m, idx)
           [] linha = "rec_parcelas" ->
                RecParcelas(p, tv, t, ValorVenda(p, unidades_vendas, m), m, idx)
           [] linha = "rec_intermediarias" ->
                RecIntermediarias(p, tv, t, ValorVenda(p, unidades_vendas, m), m, idx)
           [] OTHER ->
                RAdd(RAdd(RecEntrada(p, tv, t, ValorVenda(p, unidades_vendas, m), m, idx),
                          RecParcelas(p, tv, t, ValorVenda(p, unidades_vendas, m), m, idx)),
                     RecIntermediarias(p, tv, t, ValorVenda(p, unidades_vendas, m), m, idx))

\* the array named by linha once the loop over the months has run
RecAcumulada(linha, p, tv, t, unidades_vendas, primeiro, ultimo) ==
    Lista([idx \in 0 .. t.total_meses - 1 |->
        SumRange([m \in primeiro .. ultimo |->
                     RecDoMes(linha, p, tv, t, unidades_vendas, m, idx)],
                 primeiro, ultimo)])

Receitas(p, tv, t, unidades_vendas, primeiro, ultimo) ==
    [receitas |-> RecAcumulada("receitas", p, tv, t, unidades_vendas, primeiro, ultimo),
     rec_entrada |->
        RecAcumulada("rec_entrada", p, tv, t, unidades_vendas, primeiro, ultimo),
     rec_parcelas |->
        RecAcumulada("rec_parcelas", p, tv, t, unidades_vendas, primeiro, ultimo),
     rec_intermediarias |->
        RecAcumulada("rec_intermediarias", p, tv, t, unidades_vendas, primeiro, ultimo)]

(***************************************************************************)
(* simular, section 5: costs.                                              *)
(***************************************************************************)
\* the share of the construction cost disbursed in construction month m
DeltaDesembolso(tipologia, prazo_obra, m) ==
    LET curva == CURVA_DESEMBOLSO(tipologia)
        desemb_atual == Pct(_interpolar_curva(curva, Norm(m + 1, prazo_obra)))
        desemb_anterior == Pct(_interpolar_curva(curva, Norm(m, prazo_obra)))
    IN  RSub(desemb_atual, desemb_anterior)

Custos(p, t) ==
    LET T == t.total_meses
        valor_terreno == RMul(p.vgv, p.terreno_pct_vgv)
        itbi_valor == RMul(valor_terreno, p.itbi_pct)
        valor_projetos == RMul(p.vgv, p.projetos_pct)
        valor_aprovacoes == RMul(p.vgv, p.aprovacoes_pct)
        custo_admin_obra == RMul(p.custo_construcao_base, p.bdi_pct)
        c_terreno_m == [m \in 0 .. T - 1 |-> IF m = 0 THEN valor_terreno ELSE Zero]
        c_itbi_m == [m \in 0 .. T - 1 |-> IF m = 0 THEN itbi_valor ELSE Zero]
        c_projetos_m ==
            [m \in 0 .. T - 1 |->
                IF p.prazo_registro > 0
                THEN IF m < Min(p.prazo_registro, T)
                     THEN RDiv(valor_projetos, R(p.prazo_registro)) ELSE Zero
                ELSE IF m = 0 THEN valor_projetos ELSE Zero]
        idx_aprov == Min(p.prazo_registro - 1, T - 1)
        c_aprovacoes_m ==
            [m \in 0 .. T - 1 |->
                IF p.prazo_registro > 0
                THEN IF m = idx_aprov THEN valor_aprovacoes ELSE Zero
                ELSE IF m = 0 THEN valor_aprovacoes ELSE Zero]
        delta == [m \in 0 .. p.prazo_obra - 1 |->
                    DeltaDesembolso(p.tipologia, p.prazo_obra, m)]
        NaObra(mes_real) ==
            mes_real >= t.mes_lancamento /\ mes_real < t.mes_lancamento + p.prazo_obra
        c_obra_raso_m ==
            [mes_real \in 0 .. T - 1 |->
                IF NaObra(mes_real)
                THEN RMul(p.custo_construcao_base, delta[mes_real - t.mes_lancamento])
                ELSE Zero]
        c_admin_obra_m ==
            [mes_real \in 0 .. T - 1 |->
                IF NaObra(mes_real)
                THEN RMul(RMul(p.custo_construcao_base, p.bdi_pct),
                          delta[mes_real - t.mes_lancamento])
                ELSE Zero]
        tem_iptu == RGt(valor_terreno, Zero) /\ RGt(p.iptu_pct, Zero)
        iptu_mensal == RDiv(RMul(valor_terreno, p.iptu_pct), R(MesesPorAno))
        meses_iptu == Min(t.mes_entrega + 1, T)
        c_iptu_m ==
            [m \in 0 .. T - 1 |->
                IF tem_iptu /\ m < meses_iptu THEN iptu_mensal ELSE Zero]
        iptu_total == IF tem_iptu THEN RMul(iptu_mensal, R(meses_iptu)) ELSE Zero
        custos ==
            [m \in 0 .. T - 1 |->
                RAdd(RAdd(RAdd(c_terreno_m[m], c_itbi_m[m]),
                          RAdd(c_projetos_m[m], c_aprovacoes_m[m])),
                     RAdd(RAdd(c_obra_raso_m[m], c_admin_obra_m[m]), c_iptu_m[m]))]
    IN  [custos |-> Lista(custos),
         custo_terreno_aquisicao |-> valor_terreno,
         custo_itbi |-> itbi_valor,
         custo_projetos |-> valor_projetos,
         custo_aprovacoes |-> valor_aprovacoes,
         custo_obra_raso |-> p.custo_construcao_base,
         custo_admin_obra |-> custo_admin_obra,
         custo_iptu |-> iptu_total,
         custo_terreno_aquisicao_mensal |-> Lista(c_terreno_m),
         custo_itbi_mensal |-> Lista(c_itbi_m),
         custo_iptu_mensal |-> Lista(c_iptu_m),
         custo_obra_raso_mensal |-> Lista(c_obra_raso_m),
         custo_admin_obra_mensal |-> Lista(c_admin_obra_m),
         custo_projetos_mensal |-> Lista(c_projetos_m),
         custo_aprovacoes_mensal |-> Lista(c_aprovacoes_m),
         custo_obra_total |->
            RAdd(RAdd(p.custo_construcao_base, custo_admin_obra),
                 RAdd(valor_projetos, valor_aprovacoes)),
         custo_terreno_total |-> RAdd(RAdd(valor_terreno, itbi_valor), iptu_total),
         custo_total |-> Sum(custos)]

(***************************************************************************)
(* simular, section 6: expenses.  receitas is the revenue net of bad debt. *)
(***************************************************************************)
MesesAposEntrega == 6
MesesProjetoMinimo == 12

Despesas(p, t, unidades_vendas, receitas) ==
    LET T == t.total_meses
        valor_preop == RMul(p.vgv, p.preop_pct)
        valor_ri == RMul(p.vgv, p.ri_pct)
        d_preop_m == [m \in 0 .. T - 1 |-> IF m = 0 THEN valor_preop ELSE Zero]
        idx_ri == IF p.prazo_registro > 0 /\ p.prazo_registro < T
                  THEN p.prazo_registro - 1 ELSE 0
        d_ri_m == [m \in 0 .. T - 1 |-> IF m = idx_ri THEN valor_ri ELSE Zero]
        valor_vendido_mes == [m \in 0 .. T - 1 |-> RMul(p.ticket, unidades_vendas[m])]
        d_comissoes_m ==
            [m \in 0 .. T - 1 |->
                IF RGt(unidades_vendas[m], Zero)
                THEN RMul(valor_vendido_mes[m], p.corretagem_pct) ELSE Zero]
        d_premiacao_m ==
            [m \in 0 .. T - 1 |->
                IF RGt(unidades_vendas[m], Zero)
                THEN RMul(valor_vendido_mes[m], p.premiacao_pct) ELSE Zero]
        periodo_vendas_inicio == t.mes_lancamento
        periodo_vendas_fim == Min(t.mes_entrega + meses_pos_venda, T)
        meses_vendas == Max(periodo_vendas_fim - periodo_vendas_inicio, 1)
        valor_marketing == RMul(p.vgv, p.marketing_pct)
        valor_stand == RMul(p.vgv, p.stand_pct)
        valor_coord == RMul(p.vgv, p.coordenacao_pct)
        NasVendas(m) ==
            m >= periodo_vendas_inicio /\ m < Min(periodo_vendas_fim, T)
        d_marketing_m ==
            [m \in 0 .. T - 1 |->
                IF NasVendas(m) THEN RDiv(valor_marketing, R(meses_vendas)) ELSE Zero]
        d_coordenacao_m ==
            [m \in 0 .. T - 1 |->
                IF NasVendas(m) THEN RDiv(valor_coord, R(meses_vendas)) ELSE Zero]
        d_stand_m ==
            [m \in 0 .. T - 1 |-> IF m = t.mes_lancamento THEN valor_stand ELSE Zero]
        meses_projeto == Max(t.mes_entrega + MesesAposEntrega, MesesProjetoMinimo)
        desp_admin == RMul(p.vgv, p.admin_pct)
        desp_gestao == RMul(p.vgv, p.gestao_pct)
        d_admin_m ==
            [m \in 0 .. T - 1 |->
                IF m < Min(meses_projeto, T)
                THEN RDiv(desp_admin, R(meses_projeto)) ELSE Zero]
        d_gestao_m ==
            [m \in 0 .. T - 1 |->
                IF m < Min(meses_projeto, T)
                THEN RDiv(desp_gestao, R(meses_projeto)) ELSE Zero]
        valor_seguros == RMul(p.vgv, p.seguros_pct)
        anos_projeto == Max(1, meses_projeto \div MesesPorAno)
        d_seguros_m ==
            [m \in 0 .. T - 1 |->
                IF \E ano \in 0 .. anos_projeto - 1 : m = ano * MesesPorAno
                THEN RDiv(valor_seguros, R(anos_projeto)) ELSE Zero]
        valor_escrituras == RMul(p.vgv, p.escrituras_pct)
        d_escrituras_m ==
            [m \in 0 .. T - 1 |-> IF m = t.mes_entrega THEN valor_escrituras ELSE Zero]
        d_tributaria_m == [m \in 0 .. T - 1 |-> RMul(receitas[m], p.aliquota_trib)]
        despesas ==
            [m \in 0 .. T - 1 |->
                RAdd(RAdd(RAdd(RAdd(d_preop_m[m], d_ri_m[m]),
                               RAdd(d_comissoes_m[m], d_premiacao_m[m])),
                          RAdd(RAdd(d_marketing_m[m], d_coordenacao_m[m]),
                               d_stand_m[m])),
                     RAdd(RAdd(RAdd(d_admin_m[m], d_gestao_m[m]), d_seguros_m[m]),
                          RAdd(d_escrituras_m[m], d_tributaria_m[m])))]
        desp_comissoes == RMul(p.vgv, p.corretagem_pct)
        desp_premiacao == RMul(p.vgv, p.premiacao_pct)
    IN  [despesas |-> Lista(despesas),
         desp_preop |-> valor_preop,
         desp_ri |-> valor_ri,
         desp_comissoes |-> desp_comissoes,
         desp_premiacao |-> desp_premiacao,
         desp_stand |-> valor_stand,
         desp_coordenacao |-> valor_coord,
         desp_marketing |-> valor_marketing,
         desp_admin |-> desp_admin,
         desp_gestao |-> desp_gestao,
         desp_seguros |-> valor_seguros,
         desp_escrituras |-> valor_escrituras,
         desp_comissoes_mensal |-> Lista(d_comissoes_m),
         desp_premiacao_mensal |-> Lista(d_premiacao_m),
         desp_marketing_mensal |-> Lista(d_marketing_m),
         desp_stand_mensal |-> Lista(d_stand_m),
         desp_coordenacao_mensal |-> Lista(d_coordenacao_m),
         desp_admin_mensal |-> Lista(d_admin_m),
         desp_gestao_mensal |-> Lista(d_gestao_m),
         desp_seguros_mensal |-> Lista(d_seguros_m),
         desp_preop_mensal |-> Lista(d_preop_m),
         desp_ri_mensal |-> Lista(d_ri_m),
         desp_escrituras_mensal |-> Lista(d_escrituras_m),
         desp_tributaria_mensal |-> Lista(d_tributaria_m),
         despesa_comercial |->
            RAdd(RAdd(desp_comissoes, desp_premiacao), RAdd(valor_stand, valor_coord)),
         despesa_administrativa |->
            RAdd(RAdd(desp_admin, desp_gestao), RAdd(valor_seguros, valor_preop)),
         despesa_cartorial |-> RAdd(valor_ri, valor_escrituras),
         despesa_total |-> Sum(despesas)]

(***************************************************************************)
(* _calcular_tir: the sign test that precedes the solver, and the trimming *)
(* of trailing near-zero months that simular applies to its argument.      *)
(***************************************************************************)
\* sum(cf * (1 + taxa_mensal) ** t for t, cf in enumerate(fluxos)): the
\* flows compounded forward instead of discounted
calcular_vpl_capitalizado(fluxos, taxa_mensal) ==
    Sum([t \in DOMAIN fluxos |->
            RMul(fluxos[t], RPow(RAdd(One, taxa_mensal), t))])

\* sum(cf / (1 + taxa_mensal) ** t for t, cf in enumerate(fluxos))
_calcular_vpl(fluxos, taxa_mensal) ==
    Sum([t \in DOMAIN fluxos |->
            RDiv(fluxos[t], RPow(RAdd(One, taxa_mensal), t))])

tem_positivo(fluxos) == \E i \in DOMAIN fluxos : RGt(fluxos[i], Zero)
tem_negativo(fluxos) == \E i \in DOMAIN fluxos : RLt(fluxos[i], Zero)
\* the sign test giving up only on a series with no flow of either sign
TirIndefinidaSemNenhumSinal(fluxos) == ~tem_positivo(fluxos) /\ ~tem_negativo(fluxos)

TirIndefinida(fluxos) == ~tem_positivo(fluxos) \/ ~tem_negativo(fluxos)

LimiarZero == Norm(1, 100)

RECURSIVE TamanhoFluxoTir(_, _)
TamanhoFluxoTir(fluxo, n) ==
    IF n > 2 /\ RLt(RAbs(fluxo[n - 1]), LimiarZero)
    THEN TamanhoFluxoTir(fluxo, n - 1) ELSE n

FluxoTir(fluxo_mensal) ==
    Lista([m \in 0 .. TamanhoFluxoTir(fluxo_mensal, Len0(fluxo_mensal)) - 1 |->
        fluxo_mensal[m]])

(***************************************************************************)
(* simular, section 7: cash flow and indicators.                           *)
(***************************************************************************)
(***************************************************************************)
(* _calcular_tir(fluxos, max_iter, tol), one loop iteration at a time.     *)
(***************************************************************************)
max_iter_padrao == 500
tol_padrao == Norm(1, 100000000)
ChuteInicial == Norm(1, 100)
TaxaMinima == Norm(-1, 2)
TaxaMaxima == R(5)

\* base ** t with a float base and an int t raises OverflowError when the
\* power exceeds the largest float, which is below 2 ** 1024.  A base of at
\* least 2 ** k has a power of at least 2 ** (k * t): PotenciaEstoura holds of
\* the powers that exceed the largest float for that reason.
ExpoenteMaximo == 1024

RECURSIVE Log2Piso(_)
Log2Piso(x) == IF RLt(x, R(2)) THEN 0 ELSE 1 + Log2Piso(RDiv(x, R(2)))

PotenciaEstoura(base, t) ==
    RGe(base, One) /\ Log2Piso(base) * t >= ExpoenteMaximo

\* base ** t == 0: of a zero base only (t > 0)
PotenciaNula(base, t) == t > 0 /\ base = Zero

\* the months the Newton-Raphson loop adds up: those before the first month
\* whose discount factor (1 + rate) ** t is zero
MesesSomados(fl, rate, t) ==
    LET fim == {u \in t .. Len0(fl) :
                   u >= Len0(fl) \/ PotenciaNula(RAdd(One, rate), u)}
    IN  CHOOSE u \in fim : \A v \in fim : u <= v

\* the loop computes (1 + rate) ** t for every month it adds up, and
\* (1 + rate) ** (t + 1) for every such month but the first
EstouraNewton(fl, rate) ==
    \E t \in 0 .. MesesSomados(fl, rate, 0) - 1 :
        \/ PotenciaEstoura(RAdd(One, rate), t)
        \/ t > 0 /\ PotenciaEstoura(RAdd(One, rate), t + 1)

\* a month without flow adds 0 / denom = 0
NpvNewton(fl, rate) ==
    LET n == MesesSomados(fl, rate, 0)
    IN  SumRange([t \in 0 .. n - 1 |->
                     IF fl[t] = Zero THEN Zero
                     ELSE RDiv(fl[t], RPow(RAdd(One, rate), t))],
                 0, n - 1)

DnpvNewton(fl, rate) ==
    LET n == MesesSomados(fl, rate, 0)
    IN  RNeg(SumRange([t \in 0 .. n - 1 |->
                          IF t > 0 /\ fl[t] # Zero
                          THEN RDiv(RMul(R(t), fl[t]), RPow(RAdd(One, rate), t + 1))
                          ELSE Zero],
                      0, n - 1))

\* rate - npv / dnpv, with the jumps limited
\* the Newton-Raphson step taken as computed, with no limit on the jump
ProximaTaxaSemLimite(rate, npv, dnpv) == RSub(rate, RDiv(npv, dnpv))

ProximaTaxa(rate, npv, dnpv) ==
    LET rate_new == RSub(rate, RDiv(npv, dnpv))
        limitada_abaixo == IF RLt(rate_new, TaxaMinima)
                           THEN RDiv(rate, R(2)) ELSE rate_new
    IN  IF RGt(limitada_abaixo, TaxaMaxima)
        THEN RDiv(RAdd(rate, TaxaMaxima), R(2)) ELSE limitada_abaixo

\* the generator computes (1 + mid) ** t for every month
EstouraBissecao(fl, mid) ==
    \E t \in DOMAIN fl : PotenciaEstoura(RAdd(One, mid), t)

\* sum(cf / (1 + mid) ** t ... if (1 + mid) ** t != 0)
NpvBissecao(fl, mid) ==
    Sum([t \in DOMAIN fl |->
            IF ~PotenciaNula(RAdd(One, mid), t) /\ fl[t] # Zero
            THEN RDiv(fl[t], RPow(RAdd(One, mid), t)) ELSE Zero])

PontoMedio(low, high) == RDiv(RAdd(low, high), R(2))

\* the monthly flow with the expenses left out
FluxoMensalSemDespesas(receitas, custos, despesas) ==
    Lista([m \in DOMAIN receitas |-> RSub(receitas[m], custos[m])])

FluxoMensal(receitas, custos, despesas) ==
    Lista([m \in DOMAIN receitas |-> RSub(RSub(receitas[m], custos[m]), despesas[m])])

FluxoAcumulado(fluxo_mensal) ==
    Lista([m \in DOMAIN fluxo_mensal |-> SumRange(fluxo_mensal, 0, m)])

\* min(fluxo_acumulado) if fluxo_acumulado else 0.0
ExposicaoMaxima(fluxo_acumulado) ==
    IF DOMAIN fluxo_acumulado = {} THEN Zero
    ELSE LET m == CHOOSE i \in DOMAIN fluxo_acumulado :
                     \A j \in DOMAIN fluxo_acumulado :
                         RLe(fluxo_acumulado[i], fluxo_acumulado[j])
         IN  fluxo_acumulado[m]

\* the for/else over enumerate(fluxo_acumulado)
RECURSIVE PaybackDesde(_, _, _)
PaybackDesde(fluxo_acumulado, m, total_meses) ==
    IF m >= Len0(fluxo_acumulado) THEN total_meses
    ELSE IF RGt(fluxo_acumulado[m], Zero) THEN m
    ELSE PaybackDesde(fluxo_acumulado, m + 1, total_meses)

\* the payback scan answering the last month index when it finds no month
PaybackUltimoIndice(fluxo_acumulado, total_meses) ==
    PaybackDesde(fluxo_acumulado, 0, total_meses - 1)

PaybackMeses(fluxo_acumulado, total_meses) ==
    PaybackDesde(fluxo_acumulado, 0, total_meses)

\* ResultadoSimulacao(): every field at its default
ResultadoSimulacao ==
    [vgv |-> Zero, num_unidades_liquidas |-> Zero, vgv_cancelado |-> Zero,
     receita_bruta |-> Zero, receita_liquida |-> Zero, receita_entrada |-> Zero,
     receita_parcelas |-> Zero, receita_intermediarias |-> Zero,
     valor_inadimplencia |-> Zero, valor_distrato |-> Zero,
     impostos_total |-> Zero, custo_total |-> Zero, custo_obra_total |-> Zero,
     custo_obra_raso |-> Zero, custo_admin_obra |-> Zero, custo_projetos |-> Zero,
     custo_aprovacoes |-> Zero, custo_terreno_total |-> Zero,
     custo_terreno_aquisicao |-> Zero, custo_itbi |-> Zero, custo_iptu |-> Zero,
     despesa_total |-> Zero, despesa_comercial |-> Zero, desp_comissoes |-> Zero,
     desp_premiacao |-> Zero, desp_stand |-> Zero, desp_coordenacao |-> Zero,
     desp_marketing |-> Zero, despesa_administrativa |-> Zero, desp_admin |-> Zero,
     desp_gestao |-> Zero, desp_seguros |-> Zero, desp_preop |-> Zero,
     despesa_cartorial |-> Zero, desp_ri |-> Zero, desp_escrituras |-> Zero,
     despesa_tributaria |-> Zero, atividades_operacionais |-> Zero,
     resultado_projeto |-> Zero, margem_vgv |-> Zero, margem_custo |-> Zero,
     margem_receita_liq |-> Zero, tir_mensal |-> Zero, tir_anual |-> Zero,
     vpl |-> Zero, payback_meses |-> 0, exposicao_maxima |-> Zero,
     lucro_sobre_investimento |-> Zero, total_meses |-> 0,
     fluxo_mensal |-> <<>>, fluxo_acumulado |-> <<>>, receitas_mensais |-> <<>>,
     custos_mensais |-> <<>>, despesas_mensais |-> <<>>,
     vendas_unidades_mensal |-> <<>>, vendas_unidades_acum_mensal |-> <<>>,
     vgv_vendido_mensal |-> <<>>, rec_entrada_mensal |-> <<>>,
     rec_parcelas_mensal |-> <<>>, rec_intermediarias_mensal |-> <<>>,
     inadimplencia_mensal |-> <<>>, receita_bruta_mensal |-> <<>>,
     impostos_mensal |-> <<>>, distratos_mensal |-> <<>>,
     custo_terreno_aquisicao_mensal |-> <<>>, custo_itbi_mensal |-> <<>>,
     custo_iptu_mensal |-> <<>>, custo_obra_raso_mensal |-> <<>>,
     custo_admin_obra_mensal |-> <<>>, custo_projetos_mensal |-> <<>>,
     custo_aprovacoes_mensal |-> <<>>, desp_comissoes_mensal |-> <<>>,
     desp_premiacao_mensal |-> <<>>, desp_marketing_mensal |-> <<>>,
     desp_stand_mensal |-> <<>>, desp_coordenacao_mensal |-> <<>>,
     desp_admin_mensal |-> <<>>, desp_gestao_mensal |-> <<>>,
     desp_seguros_mensal |-> <<>>, desp_preop_mensal |-> <<>>,
     desp_ri_mensal |-> <<>>, desp_escrituras_mensal |-> <<>>,
     desp_tributaria_mensal |-> <<>>, atividades_operacionais_mensal |-> <<>>,
     saldo_caixa_mensal |-> <<>>]

(***************************************************************************)
(* simular, sections 7 and 8: the result object filled from the locals, up *)
(* to the rate-based indicators (tir_mensal, tir_anual, vpl), which        *)
(* Indicadores fills in.  r, c and d hold the locals of the revenue, cost  *)
(* and expense sections; receitas is the revenue net of bad debt.          *)
(***************************************************************************)
VendasUnMensal(p, unidades_vendas) ==
    Lista([m \in DOMAIN unidades_vendas |-> VendasLiquidas(p, unidades_vendas, m)])

\* receitas left as recognized, without the bad-debt reduction
ReceitasSemInadimplencia(p, r) == r.receitas

ReceitasLiquidas(p, r) ==
    Lista([m \in DOMAIN r.receitas |->
              RMul(r.receitas[m], RSub(One, p.inadimplencia_pct))])

Simulacao(p, t, vendas_un_mensal, r, receitas, c, d, fluxo_mensal, fluxo_acumulado, exposicao_maxima) ==
    LET T == t.total_meses
        fator_liquido == RSub(One, p.distrato_pct)
        receita_bruta_total == Sum(r.receitas)
        receita_liquida == Sum(receitas)
        despesa_tributaria == RMul(receita_liquida, p.aliquota_trib)
        resultado_projeto == RSub(RSub(receita_liquida, c.custo_total), d.despesa_total)
    IN  [vgv |-> p.vgv,
         num_unidades_liquidas |-> RMul(R(p.num_unidades), fator_liquido),
         vgv_cancelado |-> RMul(p.vgv, p.distrato_pct),
         receita_bruta |-> receita_bruta_total,
         receita_liquida |-> receita_liquida,
         receita_entrada |-> Sum(r.rec_entrada),
         receita_parcelas |-> Sum(r.rec_parcelas),
         receita_intermediarias |-> Sum(r.rec_intermediarias),
         valor_inadimplencia |-> RMul(receita_bruta_total, p.inadimplencia_pct),
         valor_distrato |-> RMul(p.vgv, p.distrato_pct),
         impostos_total |-> despesa_tributaria,
         custo_total |-> c.custo_total,
         custo_obra_total |-> c.custo_obra_total,
         custo_obra_raso |-> c.custo_obra_raso,
         custo_admin_obra |-> c.custo_admin_obra,
         custo_projetos |-> c.custo_projetos,
         custo_aprovacoes |-> c.custo_aprovacoes,
         custo_terreno_total |-> c.custo_terreno_total,
         custo_terreno_aquisicao |-> c.custo_terreno_aquisicao,
         custo_itbi |-> c.custo_itbi,
         custo_iptu |-> c.custo_iptu,
         despesa_total |-> d.despesa_total,
         despesa_comercial |-> d.despesa_comercial,
         desp_comissoes |-> d.desp_comissoes,
         desp_premiacao |-> d.desp_premiacao,
         desp_stand |-> d.desp_stand,
         desp_coordenacao |-> d.desp_coordenacao,
         desp_marketing |-> d.desp_marketing,
         despesa_administrativa |-> d.despesa_administrativa,
         desp_admin |-> d.desp_admin,
         desp_gestao |-> d.desp_gestao,
         desp_seguros |-> d.desp_seguros,
         desp_preop |-> d.desp_preop,
         despesa_cartorial |-> d.despesa_cartorial,
         desp_ri |-> d.desp_ri,
         desp_escrituras |-> d.desp_escrituras,
         despesa_tributaria |-> despesa_tributaria,
         atividades_operacionais |-> resultado_projeto,
         resultado_projeto |-> resultado_projeto,
         margem_vgv |->
            IF RGt(p.vgv, Zero)
            THEN RMul(RDiv(resultado_projeto, p.vgv), Cem) ELSE Zero,
         margem_custo |->
            IF RGt(c.custo_total, Zero)
            THEN RMul(RDiv(resultado_projeto, c.custo_total), Cem) ELSE Zero,
         margem_receita_liq |->
            IF RGt(receita_liquida, Zero)
            THEN RMul(RDiv(resultado_projeto, receita_liquida), Cem) ELSE Zero,
         tir_mensal |-> Zero,
         tir_anual |-> Zero,
         vpl |-> Zero,
         payback_meses |-> PaybackMeses(fluxo_acumulado, T),
         exposicao_maxima |-> exposicao_maxima,
         lucro_sobre_investimento |->
            IF RLt(exposicao_maxima, Zero)
            THEN RMul(RDiv(resultado_projeto, RAbs(exposicao_maxima)), Cem)
            ELSE Zero,
         total_meses |-> T,
         fluxo_mensal |-> fluxo_mensal,
         fluxo_acumulado |-> fluxo_acumulado,
         receitas_mensais |-> receitas,
         custos_mensais |-> c.custos,
         despesas_mensais |-> d.despesas,
         vendas_unidades_mensal |-> vendas_un_mensal,
         vendas_unidades_acum_mensal |-> FluxoAcumulado(vendas_un_mensal),
         vgv_vendido_mensal |-> Lista([m \in 0 .. T - 1 |-> RMul(p.ticket, vendas_un_mensal[m])]),
         rec_entrada_mensal |-> r.rec_entrada,
         rec_parcelas_mensal |-> r.rec_parcelas,
         rec_intermediarias_mensal |-> r.rec_intermediarias,
         inadimplencia_mensal |->
            Lista([m \in 0 .. T - 1 |-> RMul(r.receitas[m], p.inadimplencia_pct)]),
         receita_bruta_mensal |-> r.receitas,
         impostos_mensal |-> d.desp_tributaria_mensal,
         distratos_mensal |-> Zeros(T),
         custo_terreno_aquisicao_mensal |-> c.custo_terreno_aquisicao_mensal,
         custo_itbi_mensal |-> c.custo_itbi_mensal,
         custo_iptu_mensal |-> c.custo_iptu_mensal,
         custo_obra_raso_mensal |-> c.custo_obra_raso_mensal,
         custo_admin_obra_mensal |-> c.custo_admin_obra_mensal,
         custo_projetos_mensal |-> c.custo_projetos_mensal,
         custo_aprovacoes_mensal |-> c.custo_aprovacoes_mensal,
         desp_comissoes_mensal |-> d.desp_comissoes_mensal,
         desp_premiacao_mensal |-> d.desp_premiacao_mensal,
         desp_marketing_mensal |-> d.desp_marketing_mensal,
         desp_stand_mensal |-> d.desp_stand_mensal,
         desp_coordenacao_mensal |-> d.desp_coordenacao_mensal,
         desp_admin_mensal |-> d.desp_admin_mensal,
         desp_gestao_mensal |-> d.desp_gestao_mensal,
         desp_seguros_mensal |-> d.desp_seguros_mensal,
         desp_preop_mensal |-> d.desp_preop_mensal,
         desp_ri_mensal |-> d.desp_ri_mensal,
         desp_escrituras_mensal |-> d.desp_escrituras_mensal,
         desp_tributaria_mensal |-> d.desp_tributaria_mensal,
         atividades_operacionais_mensal |-> fluxo_mensal,
         saldo_caixa_mensal |-> fluxo_acumulado]

(***************************************************************************)
(* The rate-based indicators.  tir is what _calcular_tir returns when it   *)
(* does not return None, and vpl what _calcular_vpl returns: both are      *)
(* computed on the whole horizon with irrational monthly rates, and enter  *)
(* here as given values.                                                   *)
(***************************************************************************)
Indicadores(s, tir, vpl) ==
    LET tir_none == TirIndefinida(FluxoTir(s.fluxo_mensal))
    IN  [s EXCEPT
            !.tir_mensal = IF tir_none THEN Zero ELSE RMul(tir, Cem),
            !.tir_anual =
                IF tir_none THEN Zero
                ELSE RMul(RSub(RPow(RAdd(One, tir), MesesPorAno), One), Cem),
            !.vpl = vpl]

(***************************************************************************)
(* gerar_diagnostico.  A finding (ItemDiagnostico) is kept by its          *)
(* categoria, severidade and titulo; its other fields are display text     *)
(* formatted from the same values.                                         *)
(***************************************************************************)
ItemDiagnostico(categoria, severidade, titulo) ==
    [categoria |-> categoria, severidade |-> severidade, titulo |-> titulo]

\* the checks of the battery, in the order they run, each appending at most
\* one finding
Achados(res, s) ==
    LET e_loteamento == res.tipologia = LOTEAMENTO
        vgv == s.vgv
        V(nome, default) == _get_premissa_valor(res, nome, default)
        PctVgv(x) == IF RGt(vgv, Zero) THEN RMul(RDiv(x, vgv), Cem) ELSE Zero
        distrato == V("Taxa de distrato estimada", Zero)
        bench_distrato == IF e_loteamento THEN R(12) ELSE R(8)
        limite_alto == IF e_loteamento THEN R(18) ELSE R(15)
        inadimplencia == V("Taxa de inadimplencia estimada", Zero)
        bench_inadimp == IF e_loteamento THEN R(15) ELSE R(5)
        limite_alto_inadimp == IF e_loteamento THEN R(25) ELSE R(10)
        velocidade == V("Velocidade de vendas", Zero)
        vendas_lanc == V("Vendas no lancamento", Zero)
        terreno_pct == V("Custo do terreno (% VGV)", Zero)
        custo_constr_pct == PctVgv(s.custo_obra_raso)
        bench_construcao == IF e_loteamento THEN R(35) ELSE R(40)
        obra == IF e_loteamento THEN "infraestrutura" ELSE "construcao"
        bdi == V("Taxa de administracao de obra (BDI)", Zero)
        total_comercial_pct == PctVgv(s.despesa_comercial)
        aliquota == V("Aliquota tributaria (regime sugerido)", Zero)
        total_adm == RAdd(V("Despesas administrativas", Zero),
                          V("Taxa de gestao do empreendimento", Zero))
        tma == V("Taxa Minima de Atratividade (TMA)", Zero)
        prazo_obra == Trunc(V("Prazo de obra estimado", R(24)))
        prazo_total_ref == prazo_obra + 12
        exposicao_pct_vgv == PctVgv(RAbs(s.exposicao_maxima))
        c_distrato ==
            IF RGt(distrato, limite_alto)
            THEN <<ItemDiagnostico("receita", "critico", "Distrato muito elevado")>>
            ELSE IF RGt(distrato, bench_distrato)
            THEN <<ItemDiagnostico("receita", "atencao", "Distrato acima do padrao")>>
            ELSE <<>>
        c_inadimplencia ==
            IF RGt(inadimplencia, limite_alto_inadimp)
            THEN <<ItemDiagnostico("receita", "critico", "Inadimplencia muito elevada")>>
            ELSE IF RGt(inadimplencia, bench_inadimp)
            THEN <<ItemDiagnostico("receita", "atencao", "Inadimplencia acima do padrao")>>
            ELSE <<>>
        c_velocidade ==
            IF RLt(velocidade, R(2))
            THEN <<ItemDiagnostico("receita", "critico",
                                   "Velocidade de vendas muito baixa")>>
            ELSE <<>>
        c_vendas_lanc ==
            IF RLt(vendas_lanc, R(25))
            THEN <<ItemDiagnostico("receita", "atencao",
                                   "Baixa concentracao de vendas no lancamento")>>
            ELSE <<>>
        c_terreno ==
            IF RGt(terreno_pct, R(22))
            THEN <<ItemDiagnostico("custo", "critico", "Custo do terreno excessivo")>>
            ELSE IF RGt(terreno_pct, R(18))
            THEN <<ItemDiagnostico("custo", "atencao", "Custo do terreno elevado")>>
            ELSE <<>>
        c_construcao ==
            IF RGt(custo_constr_pct, RMul(bench_construcao, Norm(13, 10)))
            THEN <<ItemDiagnostico("custo", "critico",
                                   IF e_loteamento
                                   THEN "Custo de infraestrutura muito elevado"
                                   ELSE "Custo de construcao muito elevado")>>
            ELSE IF RGt(custo_constr_pct, bench_construcao)
            THEN <<ItemDiagnostico("custo", "atencao",
                                   IF e_loteamento
                                   THEN "Custo de infraestrutura acima do padrao"
                                   ELSE "Custo de construcao acima do padrao")>>
            ELSE <<>>
        c_bdi ==
            IF RGt(bdi, R(20))
            THEN <<ItemDiagnostico("custo", "atencao", "BDI elevado")>>
            ELSE <<>>
        c_comercial ==
            IF RGt(total_comercial_pct, R(12))
            THEN <<ItemDiagnostico("despesa", "critico",
                                   "Despesas comerciais excessivas")>>
            ELSE IF RGt(total_comercial_pct, R(9))
            THEN <<ItemDiagnostico("despesa", "atencao",
                                   "Despesas comerciais acima do padrao")>>
            ELSE <<>>
        c_aliquota ==
            IF RGe(aliquota, R(6))
            THEN <<ItemDiagnostico("despesa", "atencao", "Carga tributaria elevada")>>
            ELSE <<>>
        c_adm ==
            IF RGt(total_adm, R(6))
            THEN <<ItemDiagnostico("despesa", "atencao",
                                   "Despesas administrativas elevadas")>>
            ELSE <<>>
        c_tma ==
            IF RGt(tma, R(18)) /\ RLt(s.vpl, Zero)
            THEN <<ItemDiagnostico("financeiro", "atencao", "TMA muito conservadora")>>
            ELSE <<>>
        c_margem ==
            IF RLt(s.margem_vgv, R(10))
            THEN IF RGt(custo_constr_pct, bench_construcao) /\ RGt(terreno_pct, R(18))
                 THEN <<ItemDiagnostico("tese", "critico",
                                        "Relacao custo/receita desfavoravel")>>
                 ELSE IF RGt(terreno_pct, R(20))
                 THEN <<ItemDiagnostico("tese", "critico",
                                        "Terreno compromete a viabilidade")>>
                 ELSE <<ItemDiagnostico("tese", "atencao", "Margem apertada")>>
            ELSE <<>>
        c_payback ==
            IF 2 * s.payback_meses > 3 * prazo_total_ref
               /\ s.payback_meses < s.total_meses
            THEN <<ItemDiagnostico("tese", "atencao", "Payback longo")>>
            ELSE <<>>
        c_exposicao ==
            IF RGt(exposicao_pct_vgv, R(50))
            THEN <<ItemDiagnostico("financeiro", "critico",
                                   "Exposicao maxima muito alta")>>
            ELSE IF RGt(exposicao_pct_vgv, R(35))
            THEN <<ItemDiagnostico("financeiro", "atencao",
                                   "Exposicao de caixa elevada")>>
            ELSE <<>>
        p_margem ==
            IF RGe(s.margem_vgv, R(20))
            THEN <<ItemDiagnostico("tese", "positivo", "Margem saudavel")>>
            ELSE <<>>
        p_tir ==
            IF RGe(s.tir_anual, R(20))
            THEN <<ItemDiagnostico("financeiro", "positivo", "TIR atrativa")>>
            ELSE <<>>
        p_terreno ==
            IF RLe(terreno_pct, R(12))
            THEN <<ItemDiagnostico("custo", "positivo",
                                   "Terreno com boa relacao custo/VGV")>>
            ELSE <<>>
        p_vendas_lanc ==
            IF RGe(vendas_lanc, R(40))
            THEN <<ItemDiagnostico("receita", "positivo",
                                   "Boa concentracao de vendas no lancamento")>>
            ELSE <<>>
    IN  c_distrato \o c_inadimplencia \o c_velocidade \o c_vendas_lanc
        \o c_terreno \o c_construcao \o c_bdi
        \o c_comercial \o c_aliquota \o c_adm
        \o c_tma \o c_margem \o c_payback \o c_exposicao
        \o p_margem \o p_tir \o p_terreno \o p_vendas_lanc

\* ordem.get(x.severidade, 1)
ordem(severidade) ==
    CASE severidade = "critico" -> 0
      [] severidade = "atencao" -> 1
      [] severidade = "positivo" -> 2
      [] OTHER -> 1

\* one step of the stable sort: x goes after every element whose key is not
\* greater than its own
RECURSIVE Inserir(_, _)
Inserir(ordenados, x) ==
    IF ordenados = <<>> THEN <<x>>
    ELSE LET ultimo == ordenados[Len(ordenados)]
         IN  IF ordem(ultimo.severidade) <= ordem(x.severidade)
             THEN Append(ordenados, x)
             ELSE Append(Inserir(SubSeq(ordenados, 1, Len(ordenados) - 1), x), ultimo)

RECURSIVE OrdenarAte(_, _)
OrdenarAte(itens, n) ==
    IF n = 0 THEN <<>> ELSE Inserir(OrdenarAte(itens, n - 1), itens[n])

\* a sort by severity that puts a finding before the ones of its own severity
RECURSIVE InserirAntesDosIguais(_, _)
InserirAntesDosIguais(ordenados, x) ==
    IF ordenados = <<>> THEN <<x>>
    ELSE LET ultimo == ordenados[Len(ordenados)]
         IN  IF ordem(ultimo.severidade) < ordem(x.severidade)
             THEN Append(ordenados, x)
             ELSE Append(InserirAntesDosIguais(SubSeq(ordenados, 1, Len(ordenados) - 1), x),
                         ultimo)

RECURSIVE OrdenarInstavelAte(_, _)
OrdenarInstavelAte(itens, n) ==
    IF n = 0 THEN <<>>
    ELSE InserirAntesDosIguais(OrdenarInstavelAte(itens, n - 1), itens[n])

OrdenarInstavel(itens) == OrdenarInstavelAte(itens, Len(itens))

\* the findings left in the order the checks appended them
SemOrdenar(itens) == itens

\* itens.sort(key=lambda x: ordem.get(x.severidade, 1))
Ordenar(itens) == OrdenarAte(itens, Len(itens))

\* the battery run whatever the result's vgv
gerar_diagnostico_sem_atalho(res, s) == Ordenar(Achados(res, s))

\* a battery whose positive land finding is given up to 20% of the VGV
gerar_diagnostico_terreno_frouxo(res, s) ==
    IF RLe(s.vgv, Zero) THEN <<>>
    ELSE LET terreno_pct == _get_premissa_valor(res, "Custo do terreno (% VGV)", Zero)
         IN  Ordenar(Achados(res, s)
                     \o IF RGt(terreno_pct, R(12)) /\ RLe(terreno_pct, R(20))
                        THEN <<ItemDiagnostico("custo", "positivo",
                                               "Terreno com boa relacao custo/VGV")>>
                        ELSE <<>>)

gerar_diagnostico(res, s) ==
    IF RLe(s.vgv, Zero) THEN <<>> ELSE Ordenar(Achados(res, s))

(***************************************************************************)
(* The inputs explored: a base Assumption Set (every assumption present)   *)
(* varied along the dimensions the projector branches on.                  *)
(***************************************************************************)
MaxPrazoObra == 5
MaxPrazoRegistro == 2

PremissasBase ==
    [n \in Nomes |->
        CASE n = "VGV estimado" -> R(1200)
          [] n = "Ticket medio por unidade" -> R(100)
          [] n = "Prazo de obra estimado" -> R(4)
          [] n = "Prazo para Registro de Incorporacao/Loteamento" -> R(1)
          [] n = "Vendas no lancamento" -> R(30)
          [] n = "Vendas durante obra" -> R(50)
          [] n = "Vendas pos-obra" -> R(20)
          [] n = "Taxa de distrato estimada" -> Zero
          [] n = "Taxa de inadimplencia estimada" -> Zero
          [] n = "Custo do terreno (% VGV)" -> R(10)
          [] n = "Taxa de administracao de obra (BDI)" -> R(10)
          [] n = "Custo de projetos e consultorias" -> R(2)
          [] n = "Custo de aprovacoes e licencas" -> R(1)
          [] n = "IPTU do terreno" -> R(1)
          [] n = "Custo de infraestrutura por m2" -> Norm(1, 10)
          [] n = "Custo de construcao por m2" -> R(1)
          [] n = "Area privativa media por unidade" -> R(40)
          [] n = "Comissao de corretagem" -> R(5)
          [] n = "Marketing e publicidade" -> R(2)
          [] n = "Stand de vendas" -> R(1)
          [] n = "Coordenacao comercial" -> R(1)
          [] n = "Premiacao de corretores" -> R(1)
          [] n = "Despesas administrativas" -> R(2)
          [] n = "Taxa de gestao do empreendimento" -> R(2)
          [] n = "Seguros" -> R(1)
          [] n = "Despesas pre-operacionais" -> R(1)
          [] n = "Aliquota tributaria (regime sugerido)" -> R(4)
          [] n = "Registro de incorporacao / loteamento" -> R(1)
          [] n = "Custos com escrituras e registros do imovel" -> R(1)
          [] n = "ITBI sobre aquisicao do terreno (% valor terreno)" -> R(2)
          [] n = "Taxa Minima de Atratividade (TMA)" -> R(15)
          [] OTHER -> R(3)]

NomesDeCusto ==
    Nomes \ {"VGV estimado", "Ticket medio por unidade", "Prazo de obra estimado",
             "Prazo para Registro de Incorporacao/Loteamento",
             "Vendas no lancamento", "Vendas durante obra", "Vendas pos-obra",
             "Taxa de distrato estimada", "Taxa de inadimplencia estimada",
             "Area privativa media por unidade",
             "Taxa Minima de Atratividade (TMA)", "Velocidade de vendas"}

\* an Assumption Set without costs or expenses
SemCustos(pr) == [n \in Nomes |-> IF n \in NomesDeCusto THEN Zero ELSE pr[n]]

\* an Assumption Set whose land alone costs the whole target sales value
Deficitaria(pr) == [pr EXCEPT !["Custo do terreno (% VGV)"] = Cem]

TabelaIncorporacao ==
    [entrada_pct |-> R(10), parcelas_obra_pct |-> R(30), financiamento_pct |-> R(50),
     reforcos_pct |-> R(10), num_parcelas_obra |-> 4]

TabelaLoteamento ==
    [entrada_pct |-> R(20), saldo_parcelado_pct |-> R(80), num_parcelas |-> 6,
     intermediarias_pct |-> Zero, num_parcelas_entrada |-> 2]

Entrada(tip, vgv, obra, reg, pr, tvi, tvl) ==
    [tipologia |-> tip, num_unidades |-> 12, area_terreno_m2 |-> None,
     premissas |->
        [pr EXCEPT !["VGV estimado"] = vgv,
                   !["Prazo de obra estimado"] = R(obra),
                   !["Prazo para Registro de Incorporacao/Loteamento"] = R(reg)],
     tabela_vendas |-> tvi,
     tabela_vendas_loteamento |-> tvl]

\* The inputs with a positive target sales value are the costly ones to
\* project.  The base Assumption Set is explored with every combination of
\* tables but the one that leaves a land subdivision on its built-in table:
\* that table (180 instalments) gives a horizon of 192 months and more, and
\* is explored without costs, without registration delay, on the shortest
\* and the longest construction period.  The other Assumption Sets are
\* explored with both tables populated.
Explorada(tip, vgv, obra, reg, pr, tvi, tvl) ==
    LET positivo == vgv # None /\ RGt(vgv, Zero)
        padrao_loteamento == tip = LOTEAMENTO /\ tvi = None /\ tvl = None
    IN  positivo =>
            IF pr = PremissasBase THEN ~padrao_loteamento
            ELSE IF pr = SemCustos(PremissasBase)
            THEN \/ tvi # None /\ tvl # None
                 \/ padrao_loteamento /\ obra \in {0, MaxPrazoObra} /\ reg = 0
            ELSE tvi # None /\ tvl # None

Entradas ==
    {Entrada(x[1], x[2], x[3], x[4], x[5], x[6], x[7]) :
        x \in {y \in {LOTEAMENTO, INCORPORACAO_VERTICAL}
                       \X {None, Zero, R(-1200), R(1200)}
                       \X (0 .. MaxPrazoObra)
                       \X (0 .. MaxPrazoRegistro)
                       \X {PremissasBase, SemCustos(PremissasBase),
                           Deficitaria(PremissasBase)}
                       \X {None, <<TabelaIncorporacao>>}
                       \X {None, <<TabelaLoteamento>>} :
                 Explorada(y[1], y[2], y[3], y[4], y[5], y[6], y[7])}}

\* an Assumption Set with bad debt
ComInadimplencia(pr) == [pr EXCEPT !["Taxa de inadimplencia estimada"] = R(20)]

EntradasComInadimplencia ==
    {Entrada(x[1], R(1200), x[2], x[3], ComInadimplencia(PremissasBase),
             <<TabelaIncorporacao>>, <<TabelaLoteamento>>) :
        x \in {LOTEAMENTO, INCORPORACAO_VERTICAL} \X (0 .. MaxPrazoObra)
                \X (0 .. MaxPrazoRegistro)}

\* a land-subdivision table with yearly intermediate payments
TabelaComIntermediarias ==
    [entrada_pct |-> R(20), saldo_parcelado_pct |-> R(70), num_parcelas |-> 6,
     intermediarias_pct |-> R(10), num_parcelas_entrada |-> 2]

EntradasComIntermediarias ==
    {Entrada(LOTEAMENTO, R(1200), x[1], x[2], PremissasBase, None,
             <<TabelaComIntermediarias>>) :
        x \in (0 .. MaxPrazoObra) \X (0 .. MaxPrazoRegistro)}

\* a land-subdivision table paid wholly as down payment, in two parcels
NumParcelasExploradas == {6, 30}

TabelaSoEntrada(num_parcelas) ==
    [entrada_pct |-> Cem, saldo_parcelado_pct |-> Zero, num_parcelas |-> num_parcelas,
     intermediarias_pct |-> Zero, num_parcelas_entrada |-> 2]

EntradasSoEntrada ==
    {Entrada(LOTEAMENTO, R(1200), x[1], x[2], PremissasBase, None,
             <<TabelaSoEntrada(x[3])>>) :
        x \in (0 .. MaxPrazoObra) \X (0 .. MaxPrazoRegistro) \X NumParcelasExploradas}

\* an Assumption Set whose list holds no Premissa of these names
NomesAusentes ==
    {"Ticket medio por unidade", "Custo do terreno (% VGV)", "Velocidade de vendas"}

SemObrigatorias(pr) == [n \in Nomes |-> IF n \in NomesAusentes THEN None ELSE pr[n]]

\* an Assumption Set whose unit price was edited to half the generated one
TicketEditado(pr) == [pr EXCEPT !["Ticket medio por unidade"] = R(50)]

EntradasEditadas ==
    {Entrada(x[1], R(1200), x[2], x[3], x[4], <<TabelaIncorporacao>>,
             <<TabelaLoteamento>>) :
        x \in {LOTEAMENTO, INCORPORACAO_VERTICAL}
                \X (0 .. MaxPrazoObra) \X (0 .. MaxPrazoRegistro)
                \X {SemObrigatorias(PremissasBase), TicketEditado(PremissasBase)}}

\* rates _calcular_tir may return (it returns None or a rate in [-0.5, 5.0])
TaxasTir == {Norm(-1, 2), One}
\* values of _calcular_vpl
ValoresVpl == {R(-1), One}

\* The inputs of the diagnostic alone: every check of the battery is put
\* below, between and above its thresholds, in an Assumption Set and a
\* result that need not come from one projection.
NiveisDistrato == <<R(0), R(13), R(19)>>
NiveisInadimplencia == <<R(0), R(12), R(26)>>
NiveisTerreno == <<R(10), R(19), R(21), R(23)>>
NiveisObraPctVgv == <<R(30), R(45), R(60)>>
NiveisBdi == <<R(10), R(25), R(25)>>
NiveisComercialPctVgv == <<R(5), R(10), R(13)>>
NiveisAliquota == <<R(4), R(6), R(6)>>
NiveisAdmin == <<R(2), R(5), R(5)>>
NiveisTma == <<R(15), R(19), R(30)>>
NiveisVpl == <<One, R(-1), R(-1)>>
NiveisTirAnual == <<R(25), R(10), R(25)>>
NiveisVelocidade == <<R(3), One, R(3)>>
NiveisMargem == <<R(5), R(15), R(25)>>
NiveisVendasLancamento == <<R(20), R(30), R(40)>>
NiveisExposicaoPctVgv == <<R(10), R(40), R(60)>>
NiveisPayback == <<6, 30, 36>>

CasosDiag ==
    {c \in {LOTEAMENTO, INCORPORACAO_VERTICAL}
            \X {R(-1200), Zero, R(1200)}
            \X (DOMAIN NiveisDistrato) \X (DOMAIN NiveisInadimplencia)
            \X (DOMAIN NiveisTerreno) \X (DOMAIN NiveisObraPctVgv)
            \X (DOMAIN NiveisComercialPctVgv) \X (DOMAIN NiveisTma)
            \X (DOMAIN NiveisMargem) \X (DOMAIN NiveisExposicaoPctVgv) :
        \* with a non-positive vgv, every check at the same level
        RLe(c[2], Zero) =>
            /\ \A i \in 4 .. 10 : c[i] = IF i = 8 THEN Min(c[3], 2) ELSE c[3]
            /\ c[5] = c[3]}

EntradaDiag(c) ==
    [tipologia |-> c[1], num_unidades |-> 12, area_terreno_m2 |-> None,
     premissas |->
        [PremissasBase EXCEPT
            !["VGV estimado"] = c[2],
            !["Taxa de distrato estimada"] = NiveisDistrato[c[3]],
            !["Taxa de inadimplencia estimada"] = NiveisInadimplencia[c[4]],
            !["Custo do terreno (% VGV)"] = NiveisTerreno[c[5]],
            !["Taxa de administracao de obra (BDI)"] = NiveisBdi[c[6]],
            !["Aliquota tributaria (regime sugerido)"] = NiveisAliquota[c[7]],
            !["Despesas administrativas"] = NiveisAdmin[c[7]],
            !["Taxa Minima de Atratividade (TMA)"] = NiveisTma[c[8]],
            !["Velocidade de vendas"] = NiveisVelocidade[c[8]],
            !["Vendas no lancamento"] = NiveisVendasLancamento[c[9]]],
     tabela_vendas |-> <<TabelaIncorporacao>>,
     tabela_vendas_loteamento |-> <<TabelaLoteamento>>]

ResultadoDiag(c) ==
    [ResultadoSimulacao EXCEPT
        !.vgv = c[2],
        !.custo_obra_raso = RMul(c[2], Pct(NiveisObraPctVgv[c[6]])),
        !.despesa_comercial = RMul(c[2], Pct(NiveisComercialPctVgv[c[7]])),
        !.vpl = NiveisVpl[c[8]],
        !.tir_anual = NiveisTirAnual[c[8]],
        !.margem_vgv = NiveisMargem[c[9]],
        !.exposicao_maxima = RNeg(RMul(RAbs(c[2]), Pct(NiveisExposicaoPctVgv[c[10]]))),
        !.payback_meses = NiveisPayback[c[10]],
        !.total_meses = 36]

\* The inputs of _calcular_vpl called on its own: short flow series and
\* monthly rates above -1.
MaxLenFluxos == 3
ValoresFluxo == {R(-121), R(-100), Zero, R(100), R(121)}
FluxosVpl ==
    UNION {[0 .. n - 1 -> ValoresFluxo] : n \in 1 .. MaxLenFluxos}
TaxasVpl == {Norm(-1, 2), Zero, Norm(1, 10), Norm(1, 2), One, R(2)}

\* The calls of _calcular_tir explored, each a flow series with an
\* iteration budget.
DeSeq(s) == [t \in 0 .. Len(s) - 1 |-> s[t + 1]]
MaxIterCurto == 2
MaxEscala == 3

\* series without a change of sign
FluxosSemTroca ==
    {DeSeq(<<R(100), R(121)>>), DeSeq(<<R(-100), R(-121)>>),
     DeSeq(<<Zero, Zero>>), DeSeq(<<R(-100), Zero>>), DeSeq(<<R(100)>>)}

\* series the solver settles within two iterations of either loop: the
\* two-flow series whose rate is the initial guess, two-flow series of a few
\* hundred-millionths, and three-flow series whose derivative vanishes at
\* the initial guess and whose rate is a bisection midpoint
FluxosRapidos ==
    {DeSeq(<<R(-100 * k), R(101 * k)>>) : k \in 1 .. MaxEscala}
    \cup {DeSeq(<<Norm(-41, 1000000000), Norm(101, 2000000000)>>),
          DeSeq(<<Norm(-9, 200000000), Norm(101, 2000000000)>>)}
    \cup {DeSeq(<<Norm(8784, 169), R(-200), R(101)>>),
          DeSeq(<<Norm(-17536, 225), R(200), R(-101)>>)}

\* series on which the solver goes on iterating, explored under a short
\* iteration budget: Newton-Raphson steps limited from below (rate / 2),
\* then the bisection
FluxosLentos ==
    {DeSeq(<<R(-100 * k), R(50 * k)>>) : k \in 1 .. MaxEscala}
    \cup {DeSeq(<<R(-2), R(1)>>), DeSeq(<<R(10201), R(-5000)>>)}

\* series explored for a single iteration of each loop: free Newton-Raphson
\* steps, and a step limited from above ((rate + 5.0) / 2)
FluxosUmPasso ==
    {DeSeq(<<R(-10), R(12)>>), DeSeq(<<R(-100), R(121)>>),
     DeSeq(<<R(100), R(-121)>>), DeSeq(<<R(-5000), R(10201)>>),
     DeSeq(<<Zero, R(-200), R(100)>>), DeSeq(<<R(-1), R(10)>>),
     DeSeq(<<R(-1), R(1), R(1)>>)}

\* a series of more than a thousand months: an outlay, a receipt a hundred
\* times as large the month after, and no flow from then on
LenFluxoLongo == 1025

FluxosLongos ==
    {[t \in 0 .. LenFluxoLongo - 1 |->
        IF t = 0 THEN R(-k) ELSE IF t = 1 THEN R(100 * k) ELSE Zero] :
     k \in 1 .. MaxEscala}

ChamadasTir ==
    ((FluxosSemTroca \cup FluxosRapidos \cup FluxosLongos)
        \X ((1 .. MaxIterCurto) \cup {max_iter_padrao}))
    \cup (FluxosLentos \X (1 .. MaxIterCurto))
    \cup (FluxosUmPasso \X {1})

\* resultado, sim, itens: the pipeline's Assumption Set, result and findings.
\* fluxos, taxa_mensal, max_iter, retorno: the arguments and the returned
\* value of a rate function called on its own; rate, low, high, iter: the
\* locals of _calcular_tir (iter counts the iterations of the running loop).
VARIABLES resultado, sim, itens, fluxos, taxa_mensal, max_iter, retorno,
          rate, low, high, iter, pc

vars_pipeline == <<resultado, sim, itens>>
vars_solver == <<rate, low, high, iter>>
vars_taxas == <<fluxos, taxa_mensal, max_iter, retorno, vars_solver>>
vars == <<resultado, sim, itens, fluxos, taxa_mensal, max_iter, retorno,
          rate, low, high, iter, pc>>

SemPipeline ==
    /\ resultado = Entrada(INCORPORACAO_VERTICAL, None, 0, 0, PremissasBase, None, None)
    /\ sim = ResultadoSimulacao
    /\ itens = <<>>

SemSolver ==
    /\ rate = ChuteInicial
    /\ low = TaxaMinima
    /\ high = TaxaMaxima
    /\ iter = 0

SemTaxas ==
    /\ fluxos = <<>>
    /\ taxa_mensal = Zero
    /\ max_iter = max_iter_padrao
    /\ retorno = None
    /\ SemSolver

Init ==
    /\ resultado \in Entradas \cup EntradasSoEntrada \cup EntradasEditadas
                       \cup EntradasComInadimplencia \cup EntradasComIntermediarias
    /\ sim = ResultadoSimulacao
    /\ itens = <<>>
    /\ SemTaxas
    /\ pc = "inicio"

\* sim = simular(resultado)
Simular ==
    /\ pc = "inicio"
    /\ LET vgv == _get_premissa_valor(resultado, "VGV estimado", Zero)
       IN  IF RLe(vgv, Zero)
           THEN /\ sim' = [ResultadoSimulacao EXCEPT !.vgv = vgv]
                /\ pc' = "simulado"
           ELSE IF LevantaNameError(resultado)
           THEN /\ sim' = sim
                /\ pc' = "NameError"
           ELSE /\ \E p \in {Extrair(resultado)}, tv \in {TabelaDeVendas(resultado)} :
                   \E t \in {Timeline(p, tv)} :
                   \E unidades_vendas \in {UnidadesVendas(p, t)} :
                   \E meses_venda \in {MesesDeVenda(p, unidades_vendas)} :
                   \E r \in {Receitas(p, tv, t, unidades_vendas,
                                      PrimeiroMesDeVenda(meses_venda),
                                      UltimoMesDeVenda(meses_venda))} :
                   \E receitas \in {ReceitasLiquidas(p, r)}, c \in {Custos(p, t)} :
                   \E d \in {Despesas(p, t, unidades_vendas, receitas)} :
                   \E fluxo_mensal \in {FluxoMensal(receitas, c.custos, d.despesas)} :
                   \E fluxo_acumulado \in {FluxoAcumulado(fluxo_mensal)} :
                   \E s \in {Simulacao(p, t, VendasUnMensal(p, unidades_vendas), r,
                                        receitas, c, d, fluxo_mensal, fluxo_acumulado,
                                        ExposicaoMaxima(fluxo_acumulado))} :
                   \E tir \in TaxasTir, vpl \in ValoresVpl :
                       sim' = Indicadores(s, tir, vpl)
                /\ pc' = "simulado"
    /\ UNCHANGED <<resultado, itens, vars_taxas>>

\* a gerar_diagnostico that also writes into the result it was handed
GerarDiagnosticoAnotandoSim ==
    /\ pc = "simulado"
    /\ itens' = gerar_diagnostico(resultado, sim)
    /\ sim' = [sim EXCEPT !.tir_anual = Zero]
    /\ pc' = "diagnosticado"
    /\ UNCHANGED <<resultado, vars_taxas>>

\* itens = gerar_diagnostico(resultado, sim)
GerarDiagnostico ==
    /\ pc = "simulado"
    /\ itens' = gerar_diagnostico(resultado, sim)
    /\ pc' = "diagnosticado"
    /\ UNCHANGED <<resultado, sim, vars_taxas>>

Next == Simular \/ GerarDiagnostico

Spec == Init /\ [][Next]_vars

\* gerar_diagnostico called on its own
InitDiag ==
    /\ \E c \in CasosDiag :
          /\ resultado = EntradaDiag(c)
          /\ sim = ResultadoDiag(c)
    /\ itens = <<>>
    /\ SemTaxas
    /\ pc = "simulado"

SpecDiag == InitDiag /\ [][GerarDiagnostico]_vars

\* _calcular_vpl called on its own
InitVpl ==
    /\ SemPipeline
    /\ fluxos \in FluxosVpl
    /\ taxa_mensal \in TaxasVpl
    /\ max_iter = max_iter_padrao
    /\ retorno = None
    /\ SemSolver
    /\ pc = "inicio"

\* retorno = _calcular_vpl(fluxos, taxa_mensal)
CalcularVpl ==
    /\ pc = "inicio"
    /\ retorno' = _calcular_vpl(fluxos, taxa_mensal)
    /\ pc' = "retornou"
    /\ UNCHANGED <<vars_pipeline, fluxos, taxa_mensal, max_iter, vars_solver>>

SpecVpl == InitVpl /\ [][CalcularVpl]_vars

\* _calcular_tir called on its own, with the default tolerance.  The series
\* on which the solver needs many iterations are explored with a short
\* iteration budget, the ones it settles in a few steps with the default.
InitTir ==
    /\ SemPipeline
    /\ \E c \in ChamadasTir :
          /\ fluxos = c[1]
          /\ max_iter = c[2]
    /\ taxa_mensal = Zero
    /\ retorno = None
    /\ SemSolver
    /\ pc = "inicio"

\* if not tem_positivo or not tem_negativo: return None
TirSemTrocaDeSinal ==
    /\ pc = "inicio"
    /\ TirIndefinida(fluxos)
    /\ retorno' = None
    /\ pc' = "retornou"
    /\ UNCHANGED <<vars_pipeline, fluxos, taxa_mensal, max_iter, vars_solver>>

\* rate = 0.01, entering the Newton-Raphson loop
TirComeca ==
    /\ pc = "inicio"
    /\ ~TirIndefinida(fluxos)
    /\ rate' = ChuteInicial
    /\ iter' = 0
    /\ pc' = "newton"
    /\ UNCHANGED <<vars_pipeline, fluxos, taxa_mensal, max_iter, retorno, low, high>>

\* one iteration of the Newton-Raphson loop
NewtonPasso ==
    /\ pc = "newton"
    /\ iter < max_iter
    /\ IF EstouraNewton(fluxos, rate)
       THEN /\ pc' = "OverflowError"
            /\ UNCHANGED <<rate, low, high, iter, retorno>>
       ELSE \E npv \in {NpvNewton(fluxos, rate)}, dnpv \in {DnpvNewton(fluxos, rate)} :
           IF RLt(RAbs(npv), tol_padrao)
           THEN /\ retorno' = rate
                /\ pc' = "retornou"
                /\ UNCHANGED <<rate, low, high, iter>>
           ELSE IF dnpv = Zero
           THEN /\ low' = TaxaMinima
                /\ high' = TaxaMaxima
                /\ iter' = 0
                /\ pc' = "bissecao"
                /\ UNCHANGED <<rate, retorno>>
           ELSE /\ rate' = ProximaTaxa(rate, npv, dnpv)
                /\ iter' = iter + 1
                /\ UNCHANGED <<low, high, retorno, pc>>
    /\ UNCHANGED <<vars_pipeline, fluxos, taxa_mensal, max_iter>>

\* the Newton-Raphson loop ends with its iterations used up
NewtonEsgota ==
    /\ pc = "newton"
    /\ iter >= max_iter
    /\ low' = TaxaMinima
    /\ high' = TaxaMaxima
    /\ iter' = 0
    /\ pc' = "bissecao"
    /\ UNCHANGED <<vars_pipeline, fluxos, taxa_mensal, max_iter, retorno, rate>>

\* one iteration of the bisection loop
BissecaoPasso ==
    /\ pc = "bissecao"
    /\ iter < max_iter
    /\ \E mid \in {PontoMedio(low, high)} :
           IF EstouraBissecao(fluxos, mid)
           THEN /\ pc' = "OverflowError"
                /\ UNCHANGED <<low, high, iter, retorno>>
           ELSE \E npv \in {NpvBissecao(fluxos, mid)} :
           IF RLt(RAbs(npv), tol_padrao)
           THEN /\ retorno' = mid
                /\ pc' = "retornou"
                /\ UNCHANGED <<low, high, iter>>
           ELSE /\ IF RGt(npv, Zero)
                   THEN low' = mid /\ high' = high
                   ELSE high' = mid /\ low' = low
                /\ iter' = iter + 1
                /\ UNCHANGED <<retorno, pc>>
    /\ UNCHANGED <<vars_pipeline, fluxos, taxa_mensal, max_iter, rate>>

\* return (low + high) / 2
BissecaoEsgota ==
    /\ pc = "bissecao"
    /\ iter >= max_iter
    /\ retorno' = PontoMedio(low, high)
    /\ pc' = "retornou"
    /\ UNCHANGED <<vars_pipeline, fluxos, taxa_mensal, max_iter, vars_solver>>

CalcularTir ==
    \/ TirSemTrocaDeSinal
    \/ TirComeca
    \/ NewtonPasso
    \/ NewtonEsgota
    \/ BissecaoPasso
    \/ BissecaoEsgota

SpecTir == InitTir /\ [][CalcularTir]_vars

\* the pipeline and _calcular_tir, either one called
InitChamadas == Init \/ InitTir

Chamadas == Next \/ CalcularTir

SpecChamadas == InitChamadas /\ [][Chamadas]_vars

\* simular up to the timeline (lines 265-363), on long periods and plans
PrazosObraLongos == {0, 1, 24, 150, 290}
PrazosRegistroLongos == {0, 6, 10, 200}
NumParcelasLongas == {0, 6, 180, 278, 288, 300}

TabelaParcelada(num_parcelas) ==
    [entrada_pct |-> R(20), saldo_parcelado_pct |-> R(80), num_parcelas |-> num_parcelas,
     intermediarias_pct |-> Zero, num_parcelas_entrada |-> 2]

EntradasTimeline ==
    {Entrada(x[1], R(1200), x[2], x[3], PremissasBase, None, x[4]) :
        x \in {LOTEAMENTO, INCORPORACAO_VERTICAL} \X PrazosObraLongos
                \X PrazosRegistroLongos
                \X ({None} \cup {<<TabelaParcelada(n)>> : n \in NumParcelasLongas})}

InitTimeline ==
    /\ resultado \in EntradasTimeline
    /\ sim = ResultadoSimulacao
    /\ itens = <<>>
    /\ SemTaxas
    /\ pc = "inicio"

DefinirTimeline ==
    /\ pc = "inicio"
    /\ \E vgv \in {_get_premissa_valor(resultado, "VGV estimado", Zero)} :
          IF RLe(vgv, Zero)
          THEN /\ sim' = [ResultadoSimulacao EXCEPT !.vgv = vgv]
               /\ pc' = "simulado"
          ELSE IF LevantaNameError(resultado)
          THEN /\ sim' = sim
               /\ pc' = "NameError"
          ELSE /\ sim' = [ResultadoSimulacao EXCEPT
                              !.vgv = vgv,
                              !.total_meses =
                                  Timeline(Extrair(resultado),
                                           TabelaDeVendas(resultado)).total_meses]
               /\ pc' = "timeline"
    /\ UNCHANGED <<resultado, itens, vars_taxas>>

SpecTimeline == InitTimeline /\ [][DefinirTimeline]_vars

\* simular up to the costs (lines 265-607), on every typology
PrazosObraCustos == {1, 2, 3, 7, 10, 12, 24, 150}
PrazosRegistroCustos == {0, 1, 2, 200}

EntradasCustos ==
    {Entrada(x[1], R(1200), x[2], x[3], PremissasBase, None, None) :
        x \in Tipologia \X PrazosObraCustos \X PrazosRegistroCustos}

InitCustos ==
    /\ resultado \in EntradasCustos
    /\ sim = ResultadoSimulacao
    /\ itens = <<>>
    /\ SemTaxas
    /\ pc = "inicio"

ReconhecerCustos ==
    /\ pc = "inicio"
    /\ \E vgv \in {_get_premissa_valor(resultado, "VGV estimado", Zero)} :
          IF RLe(vgv, Zero)
          THEN /\ sim' = [ResultadoSimulacao EXCEPT !.vgv = vgv]
               /\ pc' = "simulado"
          ELSE IF LevantaNameError(resultado)
          THEN /\ sim' = sim
               /\ pc' = "NameError"
          ELSE /\ \E p \in {Extrair(resultado)}, tv \in {TabelaDeVendas(resultado)} :
                  \E t \in {Timeline(p, tv)} :
                  \E c \in {Custos(p, t)} :
                      sim' = [ResultadoSimulacao EXCEPT
                                 !.vgv = vgv,
                                 !.total_meses = t.total_meses,
                                 !.custo_obra_raso = c.custo_obra_raso,
                                 !.custo_admin_obra = c.custo_admin_obra,
                                 !.custo_obra_raso_mensal = c.custo_obra_raso_mensal,
                                 !.custo_admin_obra_mensal = c.custo_admin_obra_mensal]
               /\ pc' = "custos"
    /\ UNCHANGED <<resultado, itens, vars_taxas>>

SpecCustos == InitCustos /\ [][ReconhecerCustos]_vars

(***************************************************************************)
(* Properties of the projection.                                           *)
(***************************************************************************)
REq(x, y) == RSub(x, y) = Zero

\* simular returned a result for a positive target sales value
Projetado == pc \notin {"inicio", "NameError"} /\ RGt(sim.vgv, Zero)

\* the monetary lines of the result, each with its month-by-month array
Linhas ==
    {<<"receita_entrada", "rec_entrada_mensal">>,
     <<"receita_parcelas", "rec_parcelas_mensal">>,
     <<"receita_intermediarias", "rec_intermediarias_mensal">>,
     <<"receita_liquida", "receitas_mensais">>,
     <<"custo_terreno_aquisicao", "custo_terreno_aquisicao_mensal">>,
     <<"custo_itbi", "custo_itbi_mensal">>,
     <<"custo_iptu", "custo_iptu_mensal">>,
     <<"custo_obra_raso", "custo_obra_raso_mensal">>,
     <<"custo_admin_obra", "custo_admin_obra_mensal">>,
     <<"custo_projetos", "custo_projetos_mensal">>,
     <<"custo_aprovacoes", "custo_aprovacoes_mensal">>,
     <<"desp_comissoes", "desp_comissoes_mensal">>,
     <<"desp_premiacao", "desp_premiacao_mensal">>,
     <<"desp_marketing", "desp_marketing_mensal">>,
     <<"desp_stand", "desp_stand_mensal">>,
     <<"desp_coordenacao", "desp_coordenacao_mensal">>,
     <<"desp_admin", "desp_admin_mensal">>,
     <<"desp_gestao", "desp_gestao_mensal">>,
     <<"desp_seguros", "desp_seguros_mensal">>,
     <<"desp_preop", "desp_preop_mensal">>,
     <<"desp_ri", "desp_ri_mensal">>,
     <<"desp_escrituras", "desp_escrituras_mensal">>,
     <<"despesa_tributaria", "desp_tributaria_mensal">>}

\* C1: in every result for a positive target sales value, each monetary
\* line's month-by-month array sums to the line's scalar total.
SomaMensalIgualTotal ==
    Projetado => \A l \in Linhas : REq(Sum(sim[l[2]]), sim[l[1]])

\* C2: in every result for a positive target sales value, each month's flow
\* is revenue minus costs minus expenses, the cumulative flow is the running
\* sum of the monthly flow, its last value is the sum of the monthly flow,
\* and resultado_projeto (net revenue - total cost - total expense) is that
\* last value.
FluxoDeCaixaConsistente ==
    Projetado =>
        LET T == sim.total_meses
        IN  /\ DOMAIN sim.fluxo_mensal = 0 .. T - 1
            /\ DOMAIN sim.fluxo_acumulado = 0 .. T - 1
            /\ \A m \in 0 .. T - 1 :
                  /\ REq(sim.fluxo_mensal[m],
                         RSub(RSub(sim.receitas_mensais[m], sim.custos_mensais[m]),
                              sim.despesas_mensais[m]))
                  /\ REq(sim.fluxo_acumulado[m],
                         IF m = 0 THEN sim.fluxo_mensal[0]
                         ELSE RAdd(sim.fluxo_acumulado[m - 1], sim.fluxo_mensal[m]))
            /\ REq(sim.fluxo_acumulado[T - 1], Sum(sim.fluxo_mensal))
            /\ REq(sim.resultado_projeto,
                   RSub(RSub(sim.receita_liquida, sim.custo_total), sim.despesa_total))
            /\ REq(sim.resultado_projeto, sim.fluxo_acumulado[T - 1])

\* a projection with revenue, costs and expenses, whose flow changes sign
FluxoDeCaixaProjetado ==
    /\ Projetado
    /\ \E m \in DOMAIN sim.fluxo_mensal : RLt(sim.fluxo_mensal[m], Zero)
    /\ \E m \in DOMAIN sim.fluxo_mensal : RGt(sim.fluxo_mensal[m], Zero)
    /\ \E m \in DOMAIN sim.despesas_mensais : RGt(sim.despesas_mensais[m], Zero)
    /\ \E m \in DOMAIN sim.custos_mensais : RGt(sim.custos_mensais[m], Zero)

\* the fields of a result, by the kind of value they hold
CamposInteiros == {"payback_meses", "total_meses"}
CamposMensais ==
    {f \in DOMAIN ResultadoSimulacao \ CamposInteiros : ResultadoSimulacao[f] = <<>>}
CamposEscalares == (DOMAIN ResultadoSimulacao \ CamposInteiros) \ CamposMensais

\* the 'VGV estimado' assumption is absent, zero or negative
VgvNaoPositivo ==
    LET v == resultado.premissas["VGV estimado"]
    IN  v = None \/ RLe(v, Zero)

\* C4 (as claimed): for a non-positive or missing 'VGV estimado', simular
\* returns a result whose every scalar, vgv included, is 0 and whose every
\* monthly array is empty.
VgvNaoPositivoTudoZero ==
    (pc # "inicio" /\ VgvNaoPositivo) =>
        /\ pc # "NameError"
        /\ \A f \in CamposEscalares : sim[f] = Zero
        /\ \A f \in CamposInteiros : sim[f] = 0
        /\ \A f \in CamposMensais : sim[f] = <<>>

\* C4 (amended): for a non-positive or missing 'VGV estimado', simular
\* returns, without raising, a result whose vgv is the assumption's value (0
\* when it is missing) and whose every other scalar is 0 and every monthly
\* array empty.
VgvNaoPositivoResultadoVazio ==
    (pc # "inicio" /\ VgvNaoPositivo) =>
        LET v == resultado.premissas["VGV estimado"]
        IN  /\ pc # "NameError"
            /\ sim.vgv = IF v = None THEN Zero ELSE v
            /\ \A f \in CamposEscalares \ {"vgv"} : sim[f] = Zero
            /\ \A f \in CamposInteiros : sim[f] = 0
            /\ \A f \in CamposMensais : sim[f] = <<>>

\* simular has returned for a negative target sales value
VgvNegativoDevolvido ==
    /\ pc = "simulado"
    /\ resultado.premissas["VGV estimado"] # None
    /\ RLt(resultado.premissas["VGV estimado"], Zero)
    /\ RLt(sim.vgv, Zero)

\* C7: payback_meses is the first month whose cumulative flow is strictly
\* positive, and total_meses when no month's is.
PaybackPrimeiroMesPositivo ==
    Projetado =>
        LET positivos == {m \in DOMAIN sim.fluxo_acumulado :
                             RGt(sim.fluxo_acumulado[m], Zero)}
        IN  IF positivos = {} THEN sim.payback_meses = sim.total_meses
            ELSE /\ sim.payback_meses \in positivos
                 /\ \A k \in positivos : sim.payback_meses <= k

\* a projection whose cumulative flow never turns positive
PaybackNuncaAtingido ==
    /\ Projetado
    /\ sim.total_meses > 0
    /\ \A m \in DOMAIN sim.fluxo_acumulado : RLe(sim.fluxo_acumulado[m], Zero)
    /\ sim.payback_meses = sim.total_meses

\* C8: exposicao_maxima is the minimum of the cumulative flow when that
\* minimum is negative, and 0 when the cumulative flow is never negative.
ExposicaoMaximaMinimoOuZero ==
    Projetado =>
        IF \E m \in DOMAIN sim.fluxo_acumulado : RLt(sim.fluxo_acumulado[m], Zero)
        THEN /\ \E m \in DOMAIN sim.fluxo_acumulado :
                    sim.exposicao_maxima = sim.fluxo_acumulado[m]
             /\ \A m \in DOMAIN sim.fluxo_acumulado :
                    RLe(sim.exposicao_maxima, sim.fluxo_acumulado[m])
        ELSE sim.exposicao_maxima = Zero

(***************************************************************************)
(* Properties of the diagnostic.                                           *)
(***************************************************************************)
\* C5: gerar_diagnostico returns no finding when the result's vgv is not
\* positive, whatever the Assumption Set holds.
DiagnosticoVazioSemVgv ==
    (pc = "diagnosticado" /\ RLe(sim.vgv, Zero)) => itens = <<>>

\* the diagnostic has returned for a result without vgv and an Assumption
\* Set on which the battery has findings to make
DiagnosticoSemVgvComAchados ==
    /\ pc = "diagnosticado"
    /\ RLe(sim.vgv, Zero)
    /\ Len(Achados(resultado, sim)) >= 3

\* C6: in the list gerar_diagnostico returns, no 'atencao' finding precedes
\* a 'critico' one and no 'positivo' finding precedes a 'critico' or an
\* 'atencao' one.
DiagnosticoOrdenadoPorSeveridade ==
    pc = "diagnosticado" =>
        \A i, j \in DOMAIN itens :
            i < j =>
                /\ ~(itens[i].severidade = "atencao" /\ itens[j].severidade = "critico")
                /\ ~(itens[i].severidade = "positivo"
                     /\ itens[j].severidade \in {"critico", "atencao"})

\* a returned list with the three severities, which the checks had appended
\* in another order
DiagnosticoReordenado ==
    /\ pc = "diagnosticado"
    /\ \A sev \in {"critico", "atencao", "positivo"} :
          \E i \in DOMAIN itens : itens[i].severidade = sev
    /\ itens # Achados(resultado, sim)

(***************************************************************************)
(* Properties of the rate functions.                                       *)
(***************************************************************************)
\* the flows from month k on are all of sign sg or zero, one of them not zero
Tardios(fl, k, sg) ==
    /\ \A t \in DOMAIN fl : t >= k => RGe(RMul(R(sg), fl[t]), Zero)
    /\ \E t \in DOMAIN fl : t >= k /\ fl[t] # Zero

\* positive flows first, negative flows after them
PositivoCedoNegativoTarde(fl) ==
    \E k \in DOMAIN fl :
        /\ k >= 1
        /\ \A t \in DOMAIN fl : t < k => RGe(fl[t], Zero)
        /\ \E t \in DOMAIN fl : t < k /\ RGt(fl[t], Zero)
        /\ Tardios(fl, k, -1)

\* C10 (as claimed): for a flow series with positive flows early and
\* negative flows late, the NPV at a rate is strictly below the NPV at every
\* smaller rate above -1.
VplDecresceComEntradasCedo ==
    (pc = "retornou" /\ PositivoCedoNegativoTarde(fluxos)) =>
        \A r1 \in TaxasVpl :
            RLt(r1, taxa_mensal) => RLt(retorno, _calcular_vpl(fluxos, r1))

\* C10 (amended): the NPV at a rate is strictly below the NPV at every
\* smaller rate above -1 when the flows after month 0 are returns (none
\* negative, one positive), and strictly above it when they are outlays
\* (none positive, one negative), as they are when the only cash in is at
\* month 0.
VplMonotonoPeloSinalDosFluxosTardios ==
    pc = "retornou" =>
        \A r1 \in TaxasVpl :
            RLt(r1, taxa_mensal) =>
                /\ Tardios(fluxos, 1, 1) => RLt(retorno, _calcular_vpl(fluxos, r1))
                /\ Tardios(fluxos, 1, -1) => RGt(retorno, _calcular_vpl(fluxos, r1))

\* the NPV of an outlay followed by a return has been computed at the
\* largest rate, and is below the NPV at a smaller one
VplDeInvestimentoCalculado ==
    /\ pc = "retornou"
    /\ Len0(fluxos) = 2
    /\ RLt(fluxos[0], Zero)
    /\ RGt(fluxos[1], Zero)
    /\ \A r \in TaxasVpl : RLe(r, taxa_mensal)
    /\ RLt(retorno, _calcular_vpl(fluxos, Zero))

\* ---------------------------------------------------------------------------
\* Properties of the rate solver (SpecTir)
\* ---------------------------------------------------------------------------

\* a call of _calcular_tir with the default iteration budget on a two-flow
\* series [-a, b], a > 0, b > 0, whose rate b/a - 1 lies in [-0.5, 5.0]
DoisFluxosPadrao ==
    /\ Len0(fluxos) = 2
    /\ RLt(fluxos[0], Zero)
    /\ RGt(fluxos[1], Zero)
    /\ max_iter = max_iter_padrao
    /\ LET taxa == RSub(RDiv(fluxos[1], RNeg(fluxos[0])), One)
       IN  RLe(TaxaMinima, taxa) /\ RLe(taxa, TaxaMaxima)

Centesimo == Norm(1, 100)

\* C9: IRR round trip.  When _calcular_tir returns from a call with the
\* default iteration budget on a two-flow series [-a, b] with a > 0, b > 0
\* and b/a - 1 inside [-0.5, 5.0], the returned rate r is b/a - 1 (to within
\* one hundredth) and _calcular_vpl evaluated at r is below 0.01 in absolute
\* value.
TirIdaEVolta ==
    (pc = "retornou" /\ DoisFluxosPadrao) =>
        /\ retorno # None
        /\ RLt(RAbs(RSub(retorno, RSub(RDiv(fluxos[1], RNeg(fluxos[0])), One))),
               Centesimo)
        /\ RLt(RAbs(_calcular_vpl(fluxos, retorno)), Centesimo)

(***************************************************************************)
(* Land subdivision sold wholly on down payment.                           *)
(***************************************************************************)
\* the Assumption Set has no cancellation and no bad debt, and the
\* land-subdivision table is 100% down payment
SoEntradaSemPerdas ==
    /\ resultado.tipologia = LOTEAMENTO
    /\ resultado.tabela_vendas_loteamento # None
    /\ resultado.tabela_vendas_loteamento[1].entrada_pct = Cem
    /\ resultado.tabela_vendas_loteamento[1].saldo_parcelado_pct = Zero
    /\ resultado.tabela_vendas_loteamento[1].intermediarias_pct = Zero
    /\ _get_premissa_valor(resultado, "Taxa de distrato estimada", R(5)) = Zero
    /\ _get_premissa_valor(resultado, "Taxa de inadimplencia estimada", R(5)) = Zero

\* C11: for a land subdivision without cancellation or bad debt, sold on a
\* table of 100% down payment, the projection has no amortized-balance
\* revenue, its down-payment revenue is its whole gross and net revenue, and
\* that revenue is the target sales value, whatever the registration period,
\* the construction period and the installment count.
SoEntradaReceitaIgualVgv ==
    (Projetado /\ SoEntradaSemPerdas) =>
        /\ sim.receita_parcelas = Zero
        /\ sim.receita_entrada = sim.receita_bruta
        /\ sim.receita_bruta = sim.receita_liquida
        /\ sim.receita_bruta = sim.vgv

(***************************************************************************)
(* The internal rate of return of a series without a change of sign.       *)
(***************************************************************************)
\* no strictly positive flow, or no strictly negative flow
SemTrocaDeSinal(fl) ==
    \/ \A i \in DOMAIN fl : RLe(fl[i], Zero)
    \/ \A i \in DOMAIN fl : RGe(fl[i], Zero)

\* C12: on a flow series without a change of sign _calcular_tir enters
\* neither loop and returns None with its locals untouched, and simular,
\* whose trimmed monthly flow has no change of sign, reports tir_mensal = 0
\* and tir_anual = 0.
TirSemSinalNaoResolvida ==
    /\ pc \in {"newton", "bissecao"} => ~SemTrocaDeSinal(fluxos)
    /\ (pc = "retornou" /\ SemTrocaDeSinal(fluxos)) =>
            /\ retorno = None
            /\ iter = 0
            /\ rate = ChuteInicial
            /\ low = TaxaMinima
            /\ high = TaxaMaxima
    /\ (Projetado /\ SemTrocaDeSinal(FluxoTir(sim.fluxo_mensal))) =>
            /\ sim.tir_mensal = Zero
            /\ sim.tir_anual = Zero

\* a projection whose monthly flow has receipts and no outlay
ProjecaoSemSaidas ==
    /\ Projetado
    /\ SemTrocaDeSinal(FluxoTir(sim.fluxo_mensal))
    /\ \E m \in DOMAIN sim.fluxo_mensal : RGt(sim.fluxo_mensal[m], Zero)
    /\ sim.tir_mensal = Zero
    /\ sim.tir_anual = Zero

(***************************************************************************)
(* Termination of the internal-rate-of-return solver.                      *)
(***************************************************************************)
\* C13: on a flow series with a positive and a negative flow, _calcular_tir
\* runs each of its two loops for at most max_iter iterations (500 by
\* default), is never left by an exception, and returns a rate.
TirSempreDevolveTaxa ==
    /\ iter <= max_iter
    /\ pc \in {"inicio", "newton", "bissecao", "retornou"}
    /\ (pc = "retornou" /\ ~SemTrocaDeSinal(fluxos)) => retorno # None

(***************************************************************************)
(* Assumptions absent from the Assumption Set.                             *)
(***************************************************************************)
\* the Assumption Set has a positive target sales value and lacks an
\* assumption the projector or the diagnostic reads without a default
FaltaPremissaObrigatoria ==
    /\ RGt(_get_premissa_valor(resultado, "VGV estimado", Zero), Zero)
    /\ \E n \in NomesAusentes : get_premissa(resultado, n) = None

\* C14: on an Assumption Set that lacks a required assumption, simular does
\* not return a result and gerar_diagnostico no findings: the call is left
\* by an error naming the missing assumption.
PremissaAusenteInterrompe ==
    FaltaPremissaObrigatoria => pc \in {"inicio", "PremissaAusente"}

\* C15: simular and gerar_diagnostico never write to the Assumption Set they
\* are handed, and gerar_diagnostico leaves the simulation result it is handed
\* exactly as it was; the findings are a function of the two arguments alone,
\* so a second call on the same arguments yields the same findings.
EntradasPreservadas ==
    [][/\ resultado' = resultado
       /\ pc = "simulado" => sim' = sim
       /\ pc' = "diagnosticado" => itens' = gerar_diagnostico(resultado, sim)]_vars

DiagnosticoFeitoSobreProjecao ==
    /\ pc = "diagnosticado"
    /\ Projetado
    /\ sim.tir_anual # Zero
    /\ itens # <<>>

PrazoLido(nome) == Trunc(get_premissa(resultado, nome))

ParcelasDoPlano ==
    IF resultado.tabela_vendas_loteamento = None THEN 180
    ELSE resultado.tabela_vendas_loteamento[1].num_parcelas

CaudaPosEntrega ==
    LET registro == PrazoLido("Prazo para Registro de Incorporacao/Loteamento")
        obra == PrazoLido("Prazo de obra estimado")
        cauda_parcelas == ParcelasDoPlano + 12
        cauda_teto == 300 - registro - obra
    IN  IF resultado.tipologia # LOTEAMENTO THEN 24
        ELSE IF cauda_parcelas <= cauda_teto THEN cauda_parcelas ELSE cauda_teto

\* C16: for every run with positive VGV that reaches the timeline,
\* total_meses is the larger of 36 and registration period + construction
\* period + post-delivery tail, the tail being 24 for a delivery-financed
\* typology and min(instalment count + 12, 300 - registration - construction)
\* for a land subdivision; so total_meses >= 36 always, and total_meses <= 300
\* for every land subdivision, whatever the periods and the instalment count.
HorizonteEntre36e300 ==
    Projetado =>
        LET soma == PrazoLido("Prazo para Registro de Incorporacao/Loteamento")
                      + PrazoLido("Prazo de obra estimado") + CaudaPosEntrega
        IN  /\ sim.total_meses = IF soma >= 36 THEN soma ELSE 36
            /\ sim.total_meses >= 36
            /\ resultado.tipologia = LOTEAMENTO => sim.total_meses <= 300

HorizonteNoTeto ==
    /\ Projetado
    /\ resultado.tipologia = LOTEAMENTO
    /\ PrazoLido("Prazo para Registro de Incorporacao/Loteamento")
          + PrazoLido("Prazo de obra estimado") + ParcelasDoPlano + 12 > 300
    /\ sim.total_meses = 300

VolumeDasFases(p) ==
    RMul(R(p.num_unidades),
         RAdd(RAdd(p.vendas_lancamento_pct, p.vendas_obra_pct), p.vendas_pos_obra_pct))

\* C17: the unit-sales schedule conserves volume for every registration
\* period >= 0 and construction period >= 0: the launch, construction-phase
\* and post-delivery volumes are each fully allocated and none overwrites
\* another, so the monthly units sold (each month net of the cancellation
\* rate, as the result records them) add up to unit count x (launch % +
\* construction % + post-delivery %) net of the cancellation rate.
VendasConservamVolume ==
    Projetado =>
        \E p \in {Extrair(resultado)} :
            REq(Sum(sim.vendas_unidades_mensal),
                RMul(VolumeDasFases(p), RSub(One, p.distrato_pct)))

\* C18: when the registration period is 0 the launch month is month 0 (units
\* are sold in month 0); when the construction period is 0 the whole
\* construction-phase volume (units x construction %, net of the cancellation
\* rate) is recorded as sold in the delivery month rather than dropped.
ExtremosDaTimelineVendem ==
    Projetado =>
        \E p \in {Extrair(resultado)} :
            /\ (p.prazo_registro = 0 /\ RGt(VolumeDasFases(p), Zero)
                   /\ RLt(p.distrato_pct, One))
                   => RGt(sim.vendas_unidades_mensal[0], Zero)
            /\ p.prazo_obra = 0
                   => RGe(sim.vendas_unidades_mensal[p.prazo_registro],
                          RMul(RMul(R(p.num_unidades), p.vendas_obra_pct),
                               RSub(One, p.distrato_pct)))

\* C19: the per-unit price simular uses is the target sales value divided by
\* the unit count, for every Assumption Set, also one whose 'Ticket medio por
\* unidade' was edited or is absent: each month's value sold is that price
\* times the units sold in the month.
PrecoUnitarioVemDoVgv ==
    Projetado =>
        \A m \in DOMAIN sim.vgv_vendido_mensal :
            sim.vgv_vendido_mensal[m]
                = RMul(RDiv(sim.vgv, R(resultado.num_unidades)),
                       sim.vendas_unidades_mensal[m])

ComReforcos ==
    /\ resultado.tipologia # LOTEAMENTO
    /\ RGt(TabelaDeVendas(resultado).tv_reforcos_pct, Zero)

\* C20: in the delivery-financed variant with a positive reinforcement
\* percentage, the reinforcements of a unit sold in month m fall in months
\* m + 6k no later than the delivery month and add up to sale value x
\* reinforcement %: the line that holds them (with the bank financing, paid in
\* the delivery month) records nothing after the delivery month, and over the
\* horizon it totals the value sold x (financing % + reinforcement %).
ReforcosAteAEntrega ==
    (Projetado /\ ComReforcos) =>
        \E p \in {Extrair(resultado)}, tv \in {TabelaDeVendas(resultado)} :
            /\ \A idx \in DOMAIN sim.rec_intermediarias_mensal :
                   idx > p.prazo_registro + p.prazo_obra
                       => sim.rec_intermediarias_mensal[idx] = Zero
            /\ REq(sim.receita_intermediarias,
                   RMul(Sum(sim.vgv_vendido_mensal),
                        RAdd(tv.tv_financiamento_pct, tv.tv_reforcos_pct)))

\* C21: bad debt is a flat haircut on every month's recognized revenue: for
\* every month m, receitas_mensais[m] = receita_bruta_mensal[m] x (1 - bad-debt
\* rate) and inadimplencia_mensal[m] = receita_bruta_mensal[m] x bad-debt rate,
\* so receita_liquida + valor_inadimplencia = receita_bruta; and the month's
\* tax expense is the tax rate applied to receitas_mensais[m], not to the
\* gross revenue.
InadimplenciaProporcional ==
    Projetado =>
        \E p \in {Extrair(resultado)} :
            /\ \A m \in DOMAIN sim.receita_bruta_mensal :
                   /\ sim.receitas_mensais[m]
                         = RMul(sim.receita_bruta_mensal[m], RSub(One, p.inadimplencia_pct))
                   /\ sim.inadimplencia_mensal[m]
                         = RMul(sim.receita_bruta_mensal[m], p.inadimplencia_pct)
                   /\ sim.desp_tributaria_mensal[m]
                         = RMul(sim.receitas_mensais[m], p.aliquota_trib)
            /\ REq(RAdd(sim.receita_liquida, sim.valor_inadimplencia), sim.receita_bruta)

ReceitaComInadimplencia ==
    /\ Projetado
    /\ RGt(get_premissa(resultado, "Taxa de inadimplencia estimada"), Zero)
    /\ RGt(sim.valor_inadimplencia, Zero)
    /\ \E m \in DOMAIN sim.receita_bruta_mensal :
          /\ RGt(sim.desp_tributaria_mensal[m], Zero)
          /\ RLt(sim.receitas_mensais[m], sim.receita_bruta_mensal[m])

CurvaAcumulada(k, n) ==
    Pct(_interpolar_curva(CURVA_DESEMBOLSO(resultado.tipologia), Norm(k, n)))

\* C22: for every typology and every construction period N >= 1, the cost
\* recognized in construction month k (k = 0..N-1), at launch month + k, is the
\* construction cost x (curve((k+1)/N) - curve(k/N)), for the raw cost and for
\* the overhead markup alike; every monthly amount is >= 0; and the amounts
\* recognized over the construction period total 100% of the raw cost and of
\* the overhead markup.
CustoDaObraSegueACurva ==
    (Projetado /\ PrazoLido("Prazo de obra estimado") >= 1) =>
        \E n \in {PrazoLido("Prazo de obra estimado")},
           lanc \in {PrazoLido("Prazo para Registro de Incorporacao/Loteamento")} :
            /\ \A k \in 0 .. n - 1 :
                   \E delta \in {RSub(CurvaAcumulada(k + 1, n), CurvaAcumulada(k, n))} :
                       /\ RGe(delta, Zero)
                       /\ lanc + k \in DOMAIN sim.custo_obra_raso_mensal
                       /\ sim.custo_obra_raso_mensal[lanc + k]
                             = RMul(sim.custo_obra_raso, delta)
                       /\ sim.custo_admin_obra_mensal[lanc + k]
                             = RMul(sim.custo_admin_obra, delta)
            /\ \A m \in DOMAIN sim.custo_obra_raso_mensal :
                   /\ RGe(sim.custo_obra_raso_mensal[m], Zero)
                   /\ RGe(sim.custo_admin_obra_mensal[m], Zero)
            /\ REq(Sum(sim.custo_obra_raso_mensal), sim.custo_obra_raso)
            /\ REq(Sum(sim.custo_admin_obra_mensal), sim.custo_admin_obra)

NaFaixa(x) == RGe(x, TaxaMinima) /\ RLe(x, TaxaMaxima)

\* C23: in _calcular_tir the candidate rate stays inside [-0.5, 5.0] at every
\* Newton-Raphson iteration (from 0.01 on, a step that would leave the range
\* is replaced by a point inside it) and at every bisection iteration (the
\* bracket and its midpoint), so a returned rate lies in [-0.5, 5.0] and the
\* discount factor (1 + rate)^t is never zero.
TaxaCandidataNaFaixa ==
    /\ NaFaixa(rate)
    /\ NaFaixa(low) /\ NaFaixa(high) /\ RLe(low, high)
    /\ NaFaixa(PontoMedio(low, high))
    /\ (pc = "retornou" /\ retorno # None) => NaFaixa(retorno)
    /\ \A t \in DOMAIN fluxos :
          /\ ~PotenciaNula(RAdd(One, rate), t)
          /\ ~PotenciaNula(RAdd(One, PontoMedio(low, high)), t)

PassoLimitadoPorCima ==
    /\ pc = "newton"
    /\ iter = 1
    /\ rate = RDiv(RAdd(ChuteInicial, TaxaMaxima), R(2))

Severidades == {"critico", "atencao", "positivo"}

DaSeveridade(lista, severidade) ==
    LET Tem(x) == x.severidade = severidade
    IN  SelectSeq(lista, Tem)

\* C24: the severity sort of gerar_diagnostico is stable and loses nothing:
\* the findings of each severity appear in the returned list in the order in
\* which their checks appended them, and the returned list is a permutation of
\* the appended findings (none dropped, none duplicated).
OrdenacaoEstavel ==
    (pc = "diagnosticado" /\ RGt(sim.vgv, Zero)) =>
        \E achados \in {Achados(resultado, sim)} :
            /\ Len(itens) = Len(achados)
            /\ \A i \in DOMAIN achados : achados[i].severidade \in Severidades
            /\ \A sev \in Severidades :
                   DaSeveridade(itens, sev) = DaSeveridade(achados, sev)

EmpatesReordenados ==
    /\ pc = "diagnosticado"
    /\ RGt(sim.vgv, Zero)
    /\ itens # Achados(resultado, sim)
    /\ \E sev \in Severidades : Len(DaSeveridade(itens, sev)) >= 2

\* C25: the sales-condition variant simular applies is decided by the
\* typology (the instalment variant for a land subdivision, the delivery-
\* financed variant for any other typology), and simular completes without
\* raising whichever of the two optional tables are populated, also for a
\* land subdivision whose only populated table is the delivery-financed one.
VariantePelaTipologia ==
    (pc # "inicio" /\ RGt(_get_premissa_valor(resultado, "VGV estimado", Zero), Zero)) =>
        /\ pc # "NameError"
        /\ TabelaDeVendas(resultado).variante
              = IF resultado.tipologia = LOTEAMENTO THEN "loteamento" ELSE "incorporacao"

\* C26: revenue causality, for both sales-condition variants: whatever simular
\* attributes to the sales of month m (down payment, instalments, financing at
\* delivery, reinforcements, intermediate payments) is recognized in a month
\* >= m, also for the units sold in the 12 months after delivery.
ReceitaNaoAntecedeAVenda ==
    Projetado =>
        \E p \in {Extrair(resultado)}, tv \in {TabelaDeVendas(resultado)} :
        \E t \in {Timeline(p, tv)} :
        \E unidades_vendas \in {UnidadesVendas(p, t)} :
            \A m \in MesesDeVenda(p, unidades_vendas) :
                \A idx \in 0 .. m - 1 :
                    RecDoMes("receitas", p, tv, t, unidades_vendas, m, idx) = Zero

\* C27: the revenue breakdown is consistent, for both sales-condition
\* variants: in every month m, receita_bruta_mensal[m] = rec_entrada_mensal[m]
\* + rec_parcelas_mensal[m] + rec_intermediarias_mensal[m], and so receita_bruta
\* = receita_entrada + receita_parcelas + receita_intermediarias.
ReceitaBrutaSomaAsParcelas ==
    Projetado =>
        /\ \A m \in DOMAIN sim.receita_bruta_mensal :
               sim.receita_bruta_mensal[m]
                   = RAdd(RAdd(sim.rec_entrada_mensal[m], sim.rec_parcelas_mensal[m]),
                          sim.rec_intermediarias_mensal[m])
        /\ sim.receita_bruta
               = RAdd(RAdd(sim.receita_entrada, sim.receita_parcelas),
                      sim.receita_intermediarias)

ReceitaComTresOrigens ==
    /\ Projetado
    /\ resultado.tipologia = LOTEAMENTO
    /\ RGt(sim.receita_entrada, Zero)
    /\ RGt(sim.receita_parcelas, Zero)
    /\ RGt(sim.receita_intermediarias, Zero)
    /\ \E m \in DOMAIN sim.receita_bruta_mensal :
          /\ RGt(sim.rec_parcelas_mensal[m], Zero)
          /\ RGt(sim.rec_intermediarias_mensal[m], Zero)

\* C28: in every result with positive VGV the reported totals are the sums of
\* their reported parts: despesa_total = despesa_comercial + desp_marketing +
\* despesa_administrativa + despesa_cartorial + despesa_tributaria, and
\* custo_total = custo_obra_total + custo_terreno_total.
TotaisSomamAsPartes ==
    Projetado =>
        /\ REq(sim.despesa_total,
               RAdd(RAdd(RAdd(sim.despesa_comercial, sim.desp_marketing),
                         RAdd(sim.despesa_administrativa, sim.despesa_cartorial)),
                    sim.despesa_tributaria))
        /\ REq(sim.custo_total, RAdd(sim.custo_obra_total, sim.custo_terreno_total))

\* the findings each check of the battery can append
AchadosPorVerificacao ==
    {{"Distrato muito elevado", "Distrato acima do padrao"},
     {"Inadimplencia muito elevada", "Inadimplencia acima do padrao"},
     {"Velocidade de vendas muito baixa"},
     {"Baixa concentracao de vendas no lancamento"},
     {"Custo do terreno excessivo", "Custo do terreno elevado"},
     {"Custo de infraestrutura muito elevado", "Custo de construcao muito elevado",
      "Custo de infraestrutura acima do padrao", "Custo de construcao acima do padrao"},
     {"BDI elevado"},
     {"Despesas comerciais excessivas", "Despesas comerciais acima do padrao"},
     {"Carga tributaria elevada"},
     {"Despesas administrativas elevadas"},
     {"TMA muito conservadora"},
     {"Relacao custo/receita desfavoravel", "Terreno compromete a viabilidade",
      "Margem apertada"},
     {"Payback longo"},
     {"Exposicao maxima muito alta", "Exposicao de caixa elevada"},
     {"Margem saudavel"},
     {"TIR atrativa"},
     {"Terreno com boa relacao custo/VGV"},
     {"Boa concentracao de vendas no lancamento"}}

Com(titulos) == {i \in DOMAIN itens : itens[i].titulo \in titulos}

\* C29: in every list gerar_diagnostico returns each check contributes at
\* most one finding (never a 'critico' and an 'atencao' of the same check), and
\* no metric gets a negative and a positive finding in the same run: the land
\* 'critico'/'atencao' finding never comes with the positive land finding, the
\* low-launch finding never with the positive launch finding, and a margin
\* 'critico'/'atencao' finding never with 'Margem saudavel'.
DiagnosticoSemContradicao ==
    pc = "diagnosticado" =>
        /\ \A i \in DOMAIN itens :
               \E titulos \in AchadosPorVerificacao : itens[i].titulo \in titulos
        /\ \A titulos \in AchadosPorVerificacao : Cardinality(Com(titulos)) <= 1
        /\ Com({"Custo do terreno excessivo", "Custo do terreno elevado"}) = {}
               \/ Com({"Terreno com boa relacao custo/VGV"}) = {}
        /\ Com({"Baixa concentracao de vendas no lancamento"}) = {}
               \/ Com({"Boa concentracao de vendas no lancamento"}) = {}
        /\ Com({"Relacao custo/receita desfavoravel", "Terreno compromete a viabilidade",
                "Margem apertada"}) = {}
               \/ Com({"Margem saudavel"}) = {}

DiagnosticoComNegativosEPositivos ==
    /\ pc = "diagnosticado"
    /\ Com({"Custo do terreno elevado"}) # {}
    /\ Com({"Margem saudavel"}) # {}
    /\ Com({"Boa concentracao de vendas no lancamento"}) # {}
    /\ Com({"Exposicao maxima muito alta"}) # {}

Tma == _get_premissa_valor(resultado, "Taxa Minima de Atratividade (TMA)", Zero)

\* C30: the positive finding 'TIR atrativa', whose text says the annual IRR
\* is above the TMA, is emitted only when sim.tir_anual is at least the value
\* of the assumption 'Taxa Minima de Atratividade (TMA)'.
TirAtrativaAcimaDaTma ==
    (pc = "diagnosticado" /\ Com({"TIR atrativa"}) # {}) => RGe(sim.tir_anual, Tma)

====
